---- MODULE Spec2Model ----
(***************************************************************************)
(* A model of the URL shortener's coordinated data plane:                  *)
(*   - the distributed ID allocator (services/id_allocator),               *)
(*   - the standalone keygen service (services/keygen_py),                 *)
(*   - the shortening service: create / lookup / statistics / track_click  *)
(*     (app/url_service.py, app/service.py),                               *)
(*   - the click pipeline and its ingestion consumer                       *)
(*     (services/ingestion/worker.py).                                     *)
(* Every await of the source is a step of its own, so that the tasks of    *)
(* one process and the processes sharing one cache interleave as they do   *)
(* under asyncio.  A cache key set with a TTL may expire at any moment.    *)
(***************************************************************************)
EXTENDS Integers, Sequences, FiniteSets, TLC

(***************************************************************************)
(* Bounds of the model.                                                    *)
(***************************************************************************)
NumAllocators == 2      \* allocator instances sharing one cache
MaxCalls == 3           \* allocate_unique_id_range calls, all instances together
MaxSmallSize == 1       \* range sizes 1..MaxSmallSize besides ID_BLOCK_SIZE
MaxOutages == 1         \* times a backend becomes unreachable
NumKeygenRequests == 2  \* POST /allocate requests in flight at the keygen service
MaxKeygenCalls == 3     \* POST /allocate requests, all together
MaxKeygenOutages == 2   \* times a keygen backend becomes unreachable
NumTasks == 2           \* request tasks of the app process running at once
MaxRequests == 3        \* requests the app serves, all together
NumClickTasks == 1      \* request tasks serving redirects and statistics
MaxClicks == 2          \* direct calls of track_url_click / increment_clicks
MaxFaults == 1          \* cache, OLTP or columnar operations that fail
MaxKafkaOutages == 1    \* times the queue becomes unreachable

(***************************************************************************)
(* Program constants.                                                      *)
(***************************************************************************)
INITIAL_COUNTER == 1000000   \* base of global_id_counter
SEQUENCE_START == 1000000    \* url_id_sequence START
SEQUENCE_INCREMENT == 1000   \* url_id_sequence INCREMENT
ID_BLOCK_SIZE == 1000        \* Settings.ID_BLOCK_SIZE
SHORT_CODE_LENGTH == 8       \* Settings.SHORT_CODE_LENGTH
INGESTION_BATCH_SIZE == 500  \* Settings.INGESTION_BATCH_SIZE
LOCK_MAX_RETRIES == 5        \* _acquire_distributed_lock(max_retries=5)
MAX_INT == 2000000000        \* largest ID the model's arithmetic represents

None == -1                   \* Python None for an integer-valued cache key
NoToken == <<>>              \* the lock key is absent

Allocators == 1..NumAllocators
Sizes == (1..MaxSmallSize) \cup {ID_BLOCK_SIZE}
MAX_BLOCK == 1000000     \* the largest size a request may ask for

VARIABLES
    \* ---- the allocator's backends
    global_id_counter,      \* cache key global_id_counter (None: unset)
    id_allocation_lock,     \* cache key id_allocation_lock: owner token or NoToken
    audit_table,            \* OLTP table id_allocation_records
    url_id_sequence,        \* next value nextval('url_id_sequence') returns
    redis_up,               \* the primary cache answers
    pg_up,                  \* the OLTP store answers
    outages,                \* outages so far (bounded by MaxOutages)
    \* ---- one IDAllocationService per process
    apc,                    \* where each instance's task stands
    redis_health,           \* self.redis_health
    postgresql_health,      \* self.postgresql_health
    active_locks,           \* self.active_locks["id_allocation_lock"]
    pending_allocations,    \* self.pending_allocations
    range_size,             \* argument of the running call
    lock_value,             \* token of the running call
    attempt,                \* retry counter of _acquire_distributed_lock
    current_value,          \* local current_value / max_id
    outcome,                \* "ok" | "error": how the critical section ended
    source,                 \* AllocationSource of the running call
    calls,                  \* calls started by the instance
    \* ---- history
    granted,                \* every range a successful call returned
    released,               \* per instance: what its last release met
    counter_loss,           \* what had been returned when the cache lost its keys
    \* ---- the standalone keygen service (services/keygen_py)
    keygen_redis,           \* ID_ALLOCATOR_KEY in the primary and the secondary backend
    keygen_up,              \* which keygen backend answers
    keygen_outages,         \* keygen backend outages so far
    kpc,                    \* where each POST /allocate stands
    keygen_size,            \* req.size of the running request
    keygen_calls,           \* requests started
    keygen_granted,         \* every AllocateResponse returned
    \* ---- the app's stores (app/url_service.py)
    urls,                   \* OLTP table urls
    urls_next_id,           \* next value of urls.id
    url_cache,              \* cache keys url:<code> on the primary
    url_cache_replica,      \* the same keys as the read replica holds them
    url_lock,               \* cache keys lock:url:<code>
    \* ---- the app's ID block
    id_allocation_next,     \* module global _id_allocation_next
    id_allocation_end,      \* module global _id_allocation_end
    keygen_service_key,     \* the counter behind KEYGEN_SERVICE_URL/allocate
    id_allocator_python,    \* cache key <ID_ALLOCATOR_KEY>:python
    \* ---- the app's request tasks
    task,                   \* locals and position of each request task
    requests,               \* requests started
    responses,              \* every response returned
    window_reads,           \* OLTP reads of lookups since lock:url:<code> was last set
    \* ---- the click pipeline between the app and the consumer
    click_buffer,           \* value of the cache keys click_buffer:<code>
    click_buffer_ttl,       \* "absent", or the key exists with "none" or a "ttl"
    kafka_up,               \* the queue's brokers answer
    kafka_outages,          \* queue outages so far
    producer,               \* app.kafka._producer: "unset", "None" or "started"
    click_queue,            \* the records of the click topic
    click_stream,           \* the entries of the fallback stream
    faults,                 \* operations that failed so far
    \* ---- the ingestion consumer (services/ingestion/worker.py)
    ipc,                    \* where the consumer process stands
    stream_group,           \* consumer group of the stream: last delivered ID, PEL
    kafka_position,         \* fetch position of the running consumer
    ingestion_agg,          \* hash ingestion_agg:<consumer>
    clickhouse_rows,        \* rows of the columnar table click_events
    kafka_batch,            \* local batch of run
    messages,               \* stream entries read and not yet acknowledged
    fallback_batch,         \* local fallback_batch
    aggregated,             \* local aggregated of _flush_aggregates
    consumed,               \* click events the consumer has read, per code
    stream_aggregated,      \* stream entries whose delta reached the hash
    flush_log,              \* the last flush that committed: what it did
    \* ---- the cache warmer (services/cache_warmer_py/worker.py)
    warmer_pc,              \* where _warm_hottest_urls stands
    hottest,                \* its local hottest: the rows it selected
    \* ---- the cache client (services/redis/redis_sentinel_service.py)
    sentinel_up,            \* the cache server answers PING and commands
    clock,                  \* time.time(), in seconds
    circuit_open,           \* self.circuit_open
    circuit_open_until,     \* self.circuit_open_until
    consecutive_failures,   \* self.consecutive_failures
    operations,             \* calls of get_client / execute_with_retry so far
    failed_operations,      \* the failed calls in a row, and when the 5th was
    \* ---- one tick of the allocator's sync worker on a long deque
    sync_tick,              \* the locals of _process_pending_syncs
    \* ---- the ingestion loop, counted in distinct codes
    agg_loop,               \* where run stands, and HLEN ingestion_agg:<consumer>
    \* ---- _flush_click_buffer (app/service.py)
    click_flush_lock,       \* cache key lock:click_flush:<code>: set or not
    flush_call,             \* what each call of _flush_click_buffer has done
    \* ---- the ID blocks of the app process (history)
    block_log               \* blocks granted, the one installed, IDs drawn

allocStore == <<global_id_counter, id_allocation_lock, audit_table,
                url_id_sequence>>
allocEnv == <<redis_up, pg_up, outages>>
allocHealth == <<redis_health, postgresql_health>>
allocLocal == <<range_size, lock_value, attempt, current_value, outcome, source>>
allocVars == <<allocStore, allocEnv, allocHealth, allocLocal, apc, active_locks,
               pending_allocations, calls, granted, released, counter_loss>>

keygenVars == <<keygen_redis, keygen_up, keygen_outages, kpc, keygen_size,
                keygen_calls, keygen_granted>>

appStore == <<urls, urls_next_id, url_cache, url_cache_replica, url_lock>>
appBlock == <<id_allocation_next, id_allocation_end, keygen_service_key,
              id_allocator_python>>
appTasks == <<task, requests, responses, window_reads>>
appVars == <<appStore, appBlock, appTasks>>

clickBuffer == <<click_buffer, click_buffer_ttl>>
clickQueue == <<kafka_up, kafka_outages, producer, click_queue>>
clickVars == <<clickBuffer, clickQueue, click_stream, faults>>
ingestLocal == <<kafka_batch, messages, fallback_batch, aggregated>>
ingestVars == <<ipc, stream_group, kafka_position,
                ingestion_agg, clickhouse_rows, ingestLocal, consumed,
                stream_aggregated, flush_log>>

warmerVars == <<warmer_pc, hottest>>

breaker == <<circuit_open, circuit_open_until, consecutive_failures>>
breakerVars == <<sentinel_up, clock, breaker, operations, failed_operations>>

tickVars == <<sync_tick>>

onDemandVars == <<click_flush_lock, flush_call>>
flushVars == <<agg_loop, onDemandVars>>

blockLogVars == <<block_log>>

vars == <<allocVars, keygenVars, appVars, clickVars, ingestVars, warmerVars,
          breakerVars, tickVars, flushVars, blockLogVars>>

\* What the allocator, the keygen service and create / lookup leave alone.
otherThanAlloc == <<keygenVars, appVars, clickVars, ingestVars, warmerVars,
                    breakerVars, tickVars, flushVars, blockLogVars>>
otherThanKeygen == <<allocVars, appVars, clickVars, ingestVars, warmerVars,
                     breakerVars, tickVars, flushVars, blockLogVars>>
otherThanApp == <<allocVars, keygenVars, clickVars, ingestVars, warmerVars,
                  breakerVars, tickVars, flushVars, blockLogVars>>
otherThanTick == <<allocVars, keygenVars, appVars, clickVars, ingestVars,
                   warmerVars, breakerVars, flushVars, blockLogVars>>
otherThanFlush == <<allocVars, keygenVars, appVars, clickVars, ingestVars,
                    warmerVars, breakerVars, tickVars, blockLogVars>>
\* What drawing IDs and refilling the block leave alone.
otherThanBlocks == <<allocVars, keygenVars, appStore, requests, responses,
                     window_reads, clickVars, ingestVars, warmerVars,
                     breakerVars, tickVars, flushVars>>
\* What neither the click pipeline nor the consumer touches.
otherThanClicks == <<allocVars, keygenVars, appBlock, urls_next_id, url_lock,
                     url_cache_replica, window_reads, warmerVars, breakerVars,
                     tickVars, flushVars, blockLogVars>>

(***************************************************************************)
(* Helpers.                                                                *)
(***************************************************************************)
SetMax(S) == CHOOSE x \in S : \A y \in S : y <= x

RECURSIVE SumUpTo(_, _)
SumUpTo(f, n) == IF n = 0 THEN 0 ELSE f[n] + SumUpTo(f, n - 1)

Overlap(r1, r2) == ~(r1.end_id < r2.start_id \/ r2.end_id < r1.start_id)

(***************************************************************************)
(* IDAllocationService.__init__                                            *)
(***************************************************************************)
\* No call of the instance has reached the finally clause of
\* _allocate_from_redis.  Of the last one that did, where the releases are
\* recorded, the record keeps how
\* the critical section was left, whose token the key held, and whether
\* the cache answered the release.
NoRelease == [exit |-> "", key |-> "", answered |-> FALSE]

\* Nothing lost so far.  After a loss: the ranges returned before it, and,
\* once a startup sync has set the counter again, the calls each instance
\* had started by then.
NoLoss == [lost |-> FALSE, before |-> {}, restored |-> FALSE,
           calls |-> [i \in Allocators |-> 0]]

AllocInit ==
    /\ global_id_counter = None
    /\ id_allocation_lock = NoToken
    /\ audit_table = {}
    /\ url_id_sequence = SEQUENCE_START
    /\ redis_up = TRUE
    /\ pg_up = TRUE
    /\ outages = 0
    /\ apc = [i \in Allocators |-> "new"]
    /\ redis_health = [i \in Allocators |-> "failed"]
    /\ postgresql_health = [i \in Allocators |-> "failed"]
    /\ active_locks = [i \in Allocators |-> NoToken]
    /\ pending_allocations = [i \in Allocators |-> <<>>]
    /\ range_size = [i \in Allocators |-> 0]
    /\ lock_value = [i \in Allocators |-> NoToken]
    /\ attempt = [i \in Allocators |-> 0]
    /\ current_value = [i \in Allocators |-> None]
    /\ outcome = [i \in Allocators |-> "ok"]
    /\ source = [i \in Allocators |-> "redis_sentinel"]
    /\ calls = [i \in Allocators |-> 0]
    /\ granted = {}
    /\ released = [i \in Allocators |-> NoRelease]
    /\ counter_loss = NoLoss

(***************************************************************************)
(* IDAllocationService.initialize: connect, restore the counter, probe     *)
(* the backends, start the sync worker.                                    *)
(***************************************************************************)
\* _initialize_redis_connections: the handles are created lazily, the
\* health flag is set without touching the server.
initialize_redis_connections(i) ==
    /\ apc[i] = "new"
    /\ redis_health' = [redis_health EXCEPT ![i] = "healthy"]
    /\ apc' = [apc EXCEPT ![i] = "sync_get"]
    /\ UNCHANGED <<otherThanAlloc, allocStore, allocEnv, postgresql_health, allocLocal,
                   active_locks, pending_allocations, calls, granted,
                   released, counter_loss>>

\* _sync_allocation_state, first await: GET global_id_counter.
sync_allocation_state_get(i) ==
    /\ apc[i] = "sync_get"
    /\ apc' = [apc EXCEPT ![i] =
                 IF ~redis_up THEN "health"              \* exception: logged
                 ELSE IF global_id_counter # None THEN "health"
                 ELSE "sync_max"]
    /\ UNCHANGED <<otherThanAlloc, allocStore, allocEnv, allocHealth, allocLocal,
                   active_locks, pending_allocations, calls, granted,
                   released, counter_loss>>

\* SELECT MAX(end_id) FROM id_allocation_records WHERE source = 'redis_sentinel'
MaxAuditEnd ==
    LET ends == {r.end_id : r \in {a \in audit_table : a.source = "redis_sentinel"}}
    IN  IF ends = {} THEN None ELSE SetMax(ends)

\* _sync_allocation_state, second await: the OLTP read.
sync_allocation_state_max(i) ==
    /\ apc[i] = "sync_max"
    /\ IF pg_up
       THEN /\ current_value' = [current_value EXCEPT ![i] = MaxAuditEnd]
            /\ apc' = [apc EXCEPT ![i] = "sync_set"]
       ELSE /\ apc' = [apc EXCEPT ![i] = "health"]
            /\ UNCHANGED current_value
    /\ UNCHANGED <<otherThanAlloc, allocStore, allocEnv, allocHealth, range_size, lock_value,
                   attempt, outcome, source, active_locks, pending_allocations,
                   calls, granted,
                   released, counter_loss>>

\* The value _sync_allocation_state writes: MAX(end_id), else the base.
RestoredCounter(max_id) ==
    IF max_id # None /\ max_id # 0 THEN max_id ELSE INITIAL_COUNTER

\* _sync_allocation_state, third await: SET global_id_counter (no lock taken).
sync_allocation_state_set(i) ==
    /\ apc[i] = "sync_set"
    /\ IF redis_up
       THEN global_id_counter' = RestoredCounter(current_value[i])
       ELSE UNCHANGED global_id_counter
    /\ counter_loss' = IF redis_up /\ counter_loss.lost /\ ~counter_loss.restored
                       THEN [counter_loss EXCEPT !.restored = TRUE, !.calls = calls]
                       ELSE counter_loss
    /\ apc' = [apc EXCEPT ![i] = "health"]
    /\ UNCHANGED <<otherThanAlloc, id_allocation_lock, audit_table,
                   url_id_sequence, allocEnv, allocHealth, allocLocal,
                   active_locks, pending_allocations, calls, granted,
                   released>>

\* _perform_health_checks: PING and SELECT 1 decide the two flags.
HealthOf(up) == IF up THEN "healthy" ELSE "failed"

\* _perform_health_checks, "Update overall health": what the two flags of
\* instance i make of metrics.current_health.
current_health(i) ==
    IF redis_health[i] = "healthy" THEN "healthy"
    ELSE IF postgresql_health[i] = "healthy" THEN "degraded"
    ELSE "failed"

\* The health probe that ends initialize (the sync worker starts after it),
\* and get_service_health on a running instance.
perform_health_checks(i) ==
    /\ apc[i] \in {"health", "idle"}
    /\ redis_health' = [redis_health EXCEPT ![i] = HealthOf(redis_up)]
    /\ postgresql_health' = [postgresql_health EXCEPT ![i] = HealthOf(pg_up)]
    /\ apc' = [apc EXCEPT ![i] = "idle"]
    /\ UNCHANGED <<otherThanAlloc, allocStore, allocEnv, allocLocal, active_locks,
                   pending_allocations, calls, granted,
                   released, counter_loss>>

(***************************************************************************)
(* IDAllocationService.allocate_unique_id_range                            *)
(***************************************************************************)
\* The locals of a call that has returned.
ReturnedLocals(i) ==
    /\ range_size' = [range_size EXCEPT ![i] = 0]
    /\ lock_value' = [lock_value EXCEPT ![i] = NoToken]
    /\ attempt' = [attempt EXCEPT ![i] = 0]
    /\ current_value' = [current_value EXCEPT ![i] = None]
    /\ outcome' = [outcome EXCEPT ![i] = "ok"]
    /\ source' = [source EXCEPT ![i] = "redis_sentinel"]

\* Where the call goes when the cache path is not taken or returned None:
\* the OLTP sequence if it is believed healthy, else RuntimeError.
AfterRedisPath(i) == IF postgresql_health[i] = "healthy" THEN "pg" ELSE "idle"

\* The call starts: up to the first await.
allocate_unique_id_range(i, size) ==
    /\ apc[i] = "idle"
    /\ SumUpTo(calls, NumAllocators) < MaxCalls
    /\ calls' = [calls EXCEPT ![i] = @ + 1]
    /\ IF redis_health[i] = "healthy" \/ postgresql_health[i] = "healthy"
       THEN /\ range_size' = [range_size EXCEPT ![i] = size]
            /\ lock_value' = [lock_value EXCEPT ![i] = <<i, calls[i] + 1>>]
            /\ source' = [source EXCEPT ![i] =
                  IF redis_health[i] = "healthy" THEN "redis_sentinel"
                  ELSE "postgresql"]
            /\ apc' = [apc EXCEPT ![i] =
                  IF redis_health[i] = "healthy" THEN "acquire" ELSE "pg"]
       ELSE UNCHANGED <<range_size, lock_value, source, apc>>  \* RuntimeError
    /\ UNCHANGED <<otherThanAlloc, allocStore, allocEnv, allocHealth, attempt, current_value,
                   outcome, active_locks, pending_allocations, granted,
                   released, counter_loss>>

\* _acquire_distributed_lock: one SET id_allocation_lock <token> NX EX 10.
\* A failed or refused attempt is retried LOCK_MAX_RETRIES times; then the
\* cache path returns None and the call falls through to the OLTP path.
acquire_distributed_lock(i) ==
    /\ apc[i] = "acquire"
    /\ IF redis_up /\ id_allocation_lock = NoToken
       THEN /\ id_allocation_lock' = lock_value[i]
            /\ active_locks' = [active_locks EXCEPT ![i] = lock_value[i]]
            /\ apc' = [apc EXCEPT ![i] = "get"]
            /\ attempt' = [attempt EXCEPT ![i] = 0]
            /\ UNCHANGED <<range_size, lock_value, current_value, outcome,
                           source>>
       ELSE /\ IF attempt[i] < LOCK_MAX_RETRIES
               THEN /\ attempt' = [attempt EXCEPT ![i] = @ + 1]
                    /\ UNCHANGED <<apc, range_size, lock_value, current_value,
                                   outcome, source>>
               ELSE /\ apc' = [apc EXCEPT ![i] = AfterRedisPath(i)]
                    /\ IF AfterRedisPath(i) = "pg"
                       THEN /\ source' = [source EXCEPT ![i] = "postgresql"]
                            /\ attempt' = [attempt EXCEPT ![i] = 0]
                            /\ UNCHANGED <<range_size, lock_value,
                                           current_value, outcome>>
                       ELSE ReturnedLocals(i)               \* RuntimeError
            /\ UNCHANGED <<id_allocation_lock, active_locks>>
    /\ UNCHANGED <<otherThanAlloc, global_id_counter, audit_table, url_id_sequence, allocEnv,
                   allocHealth, pending_allocations, calls, granted,
                   released, counter_loss>>

\* _allocate_from_redis: GET global_id_counter under the lock.
allocate_from_redis_get(i) ==
    /\ apc[i] = "get"
    /\ IF ~redis_up
       THEN /\ outcome' = [outcome EXCEPT ![i] = "error"]
            /\ apc' = [apc EXCEPT ![i] = "release"]
            /\ UNCHANGED current_value
       ELSE /\ current_value' = [current_value EXCEPT ![i] =
                  IF global_id_counter = None THEN INITIAL_COUNTER
                  ELSE global_id_counter]
            /\ apc' = [apc EXCEPT ![i] =
                  IF global_id_counter = None THEN "seed" ELSE "set"]
            /\ UNCHANGED outcome
    /\ UNCHANGED <<otherThanAlloc, allocStore, allocEnv, allocHealth, range_size, lock_value,
                   attempt, source, active_locks, pending_allocations, calls,
                   granted,
                   released, counter_loss>>

\* _allocate_from_redis: SET global_id_counter 1000000 when it was unset.
allocate_from_redis_seed(i) ==
    /\ apc[i] = "seed"
    /\ IF ~redis_up
       THEN /\ outcome' = [outcome EXCEPT ![i] = "error"]
            /\ apc' = [apc EXCEPT ![i] = "release"]
            /\ UNCHANGED global_id_counter
       ELSE /\ global_id_counter' = current_value[i]
            /\ apc' = [apc EXCEPT ![i] = "set"]
            /\ UNCHANGED outcome
    /\ UNCHANGED <<otherThanAlloc, id_allocation_lock, audit_table,
                   url_id_sequence, allocEnv, allocHealth, range_size,
                   lock_value, attempt, current_value, source, active_locks,
                   pending_allocations, calls, granted,
                   released, counter_loss>>

\* A range that starts at the value read.
RedisRangeFromCurrent(cur, size) == [start_id |-> cur, end_id |-> cur + size]

\* The range _allocate_from_redis computes from the value it read.
RedisRange(cur, size) == [start_id |-> cur + 1, end_id |-> cur + size]

\* _allocate_from_redis: SET global_id_counter end_id.
allocate_from_redis_set(i) ==
    /\ apc[i] = "set"
    /\ IF ~redis_up
       THEN /\ outcome' = [outcome EXCEPT ![i] = "error"]
            /\ apc' = [apc EXCEPT ![i] = "release"]
            /\ UNCHANGED global_id_counter
       ELSE /\ global_id_counter' =
                  RedisRange(current_value[i], range_size[i]).end_id
            /\ apc' = [apc EXCEPT ![i] = "persist"]
            /\ UNCHANGED outcome
    /\ UNCHANGED <<otherThanAlloc, id_allocation_lock, audit_table,
                   url_id_sequence, allocEnv, allocHealth, range_size,
                   lock_value, attempt, current_value, source, active_locks,
                   pending_allocations, calls, granted,
                   released, counter_loss>>

\* The range _allocate_from_postgresql computes from nextval: the statement
\* multiplies nextval by range_size and the caller multiplies the scalar by
\* range_size again.
PgRange(nextval, size) ==
    LET batch_start == (nextval * size) * size
    IN  [start_id |-> batch_start - size + 1, end_id |-> batch_start]

\* (start_id, end_id) of the running call.
CallRange(i) ==
    IF source[i] = "postgresql"
    THEN PgRange(current_value[i], range_size[i])
    ELSE RedisRange(current_value[i], range_size[i])

\* deque(maxlen=1000).append: the oldest record is shed when full.
PENDING_MAXLEN == 1000
DequeAppend(q, rec) ==
    IF Len(q) >= PENDING_MAXLEN THEN Append(Tail(q), rec) ELSE Append(q, rec)

\* _fast_redis_persist: HSET id_allocation_records (a hash the service
\* only ever writes, so it is not kept as state), then queue the record for
\* the sync worker.  An exception of the HSET is logged and swallowed, and
\* then nothing is queued.
fast_redis_persist(i) ==
    /\ apc[i] = "persist"
    /\ LET r == CallRange(i) IN
       IF redis_up
       THEN pending_allocations' = [pending_allocations EXCEPT ![i] =
                  DequeAppend(@, [start_id |-> r.start_id, end_id |-> r.end_id,
                                  range_size |-> range_size[i],
                                  source |-> source[i]])]
       ELSE UNCHANGED pending_allocations
    /\ apc' = [apc EXCEPT ![i] =
                 IF source[i] = "postgresql" THEN "pg_commit" ELSE "release"]
    /\ UNCHANGED <<otherThanAlloc, global_id_counter, id_allocation_lock, audit_table,
                   url_id_sequence, allocEnv, allocHealth, allocLocal,
                   active_locks, calls, granted,
                   released, counter_loss>>

\* What a call that returns (start_id, end_id) adds to the history.
Grant(i) == [inst |-> i, call |-> calls[i], source |-> source[i],
             range_size |-> range_size[i],
             start_id |-> CallRange(i).start_id, end_id |-> CallRange(i).end_id]
\* A release that deletes the key whatever it holds.
ReleaseScriptDel(held, token) == NoToken

\* The Lua script of _release_distributed_lock: DEL when GET of the key
\* equals the token, else nothing.  The value the key is left with.
ReleaseScript(held, token) == IF held = token THEN NoToken ELSE held

\* _release_distributed_lock in the finally clause (owner-token
\* compare-and-delete), then the call returns its range or raises.
ReleaseLock(i) ==
    /\ apc[i] = "release"
    /\ IF active_locks[i] # NoToken /\ redis_up
       THEN /\ id_allocation_lock' =
                  ReleaseScript(id_allocation_lock, lock_value[i])
            /\ active_locks' =
                  IF id_allocation_lock = lock_value[i]
                  THEN [active_locks EXCEPT ![i] = NoToken]
                  ELSE active_locks
       ELSE UNCHANGED <<id_allocation_lock, active_locks>>
    /\ granted' = IF outcome[i] = "ok" THEN granted \cup {Grant(i)} ELSE granted
    /\ apc' = [apc EXCEPT ![i] = "idle"]
    /\ ReturnedLocals(i)
    /\ UNCHANGED <<otherThanAlloc, global_id_counter, audit_table, url_id_sequence, allocEnv,
                   allocHealth, pending_allocations, calls, counter_loss>>

\* The release of the lock and the return of the call.
release_distributed_lock(i) == ReleaseLock(i) /\ UNCHANGED released

\* The same step, with what the release met put on record.
release_distributed_lock_recorded(i) ==
    /\ ReleaseLock(i)
    /\ released' = [released EXCEPT ![i] =
          [exit |-> outcome[i],
           key |-> IF id_allocation_lock = NoToken THEN "none"
                   ELSE IF id_allocation_lock = lock_value[i] THEN "own"
                   ELSE "other",
           answered |-> redis_up]]

\* The task of the call is cancelled while it waits inside the try block
\* of _allocate_from_redis: CancelledError is raised at the await, the
\* finally clause runs, and the error leaves the call (it is not an
\* Exception, allocate_unique_id_range does not catch it).
cancel_allocation(i) ==
    /\ apc[i] \in {"get", "seed", "set", "persist"}
    /\ source[i] = "redis_sentinel"
    /\ outcome' = [outcome EXCEPT ![i] = "cancelled"]
    /\ apc' = [apc EXCEPT ![i] = "release"]
    /\ UNCHANGED <<otherThanAlloc, allocStore, allocEnv, allocHealth,
                   range_size, lock_value, attempt, current_value, source,
                   active_locks, pending_allocations, calls, granted,
                   released, counter_loss>>

\* _allocate_from_postgresql: SELECT nextval('url_id_sequence') * :size.
\* A sequence never hands out a value twice, whatever the transaction does.
\* The sequence is the one _initialize_postgresql_sequence declares.  A call
\* whose range would pass MAX_INT is not followed further.
allocate_from_postgresql_nextval(i) ==
    /\ apc[i] = "pg"
    /\ IF pg_up
       THEN /\ range_size[i] * range_size[i] <= MAX_INT \div url_id_sequence
            /\ current_value' = [current_value EXCEPT ![i] = url_id_sequence]
            /\ url_id_sequence' = url_id_sequence + SEQUENCE_INCREMENT
            /\ apc' = [apc EXCEPT ![i] = "persist"]
            /\ UNCHANGED <<range_size, lock_value, attempt, outcome, source>>
       ELSE /\ apc' = [apc EXCEPT ![i] = "idle"]      \* rollback, None
            /\ ReturnedLocals(i)
            /\ UNCHANGED url_id_sequence
    /\ UNCHANGED <<otherThanAlloc, global_id_counter, id_allocation_lock, audit_table,
                   allocEnv, allocHealth, active_locks, pending_allocations,
                   calls, granted,
                   released, counter_loss>>

\* _allocate_from_postgresql: commit, then return the range.
allocate_from_postgresql_commit(i) ==
    /\ apc[i] = "pg_commit"
    /\ granted' = IF pg_up THEN granted \cup {Grant(i)} ELSE granted
    /\ apc' = [apc EXCEPT ![i] = "idle"]
    /\ ReturnedLocals(i)
    /\ UNCHANGED <<otherThanAlloc, allocStore, allocEnv, allocHealth, active_locks,
                   pending_allocations, calls, released, counter_loss>>

(***************************************************************************)
(* The background sync worker.                                             *)
(***************************************************************************)
\* INSERT ... ON CONFLICT (start_id, end_id) DO NOTHING, for a batch.
InsertAudit(table, batch) ==
    table \cup {r \in batch :
                  ~\E a \in table : a.start_id = r.start_id /\ a.end_id = r.end_id}

SeqRange(q) == {q[k] : k \in 1..Len(q)}

\* A failed batch that is not queued again.
RequeueNothing(q, batch) == q

\* _batch_sync_to_postgresql, after the last attempt failed: every record of
\* the batch is appended again while the deque holds fewer than 1000.
RECURSIVE Requeue(_, _)
Requeue(q, batch) ==
    IF batch = <<>> THEN q
    ELSE Requeue(IF Len(q) < PENDING_MAXLEN THEN Append(q, Head(batch)) ELSE q,
                 Tail(batch))

\* _process_pending_syncs: the records older than 60 s (a prefix of the
\* deque: the other triggers need 800 queued records) leave the deque and
\* _batch_sync_to_postgresql inserts them; when every retry failed they are
\* queued again.
process_pending_syncs(i) ==
    /\ apc[i] \notin {"new", "sync_get", "sync_max", "sync_set", "health",
                      "shutdown"}
    /\ \E k \in 1..Len(pending_allocations[i]) :
         LET batch == SubSeq(pending_allocations[i], 1, k)
             rest == SubSeq(pending_allocations[i], k + 1,
                            Len(pending_allocations[i]))
         IN  IF pg_up
             THEN /\ audit_table' =
                        InsertAudit(audit_table,
                          {[start_id |-> r.start_id, end_id |-> r.end_id,
                            source |-> r.source] : r \in SeqRange(batch)})
                  /\ pending_allocations' =
                        [pending_allocations EXCEPT ![i] = rest]
             ELSE /\ pending_allocations' =
                        [pending_allocations EXCEPT ![i] = Requeue(rest, batch)]
                  /\ UNCHANGED audit_table
    /\ UNCHANGED <<otherThanAlloc, global_id_counter, id_allocation_lock, url_id_sequence, allocEnv, allocHealth, allocLocal, apc,
                   active_locks, calls, granted,
                   released, counter_loss>>

\* shutdown, called while no allocation is running: the event is set, the
\* worker task cancelled and awaited, and _process_pending_syncs is called
\* once more, which takes the k records older than 60 s, none when every
\* record is younger.
shutdown(i) ==
    /\ apc[i] = "idle"
    /\ apc' = [apc EXCEPT ![i] = "shutdown"]
    /\ \E k \in 0..Len(pending_allocations[i]) :
         LET batch == SubSeq(pending_allocations[i], 1, k)
             rest == SubSeq(pending_allocations[i], k + 1,
                            Len(pending_allocations[i]))
         IN  IF pg_up
             THEN /\ audit_table' =
                        InsertAudit(audit_table,
                          {[start_id |-> r.start_id, end_id |-> r.end_id,
                            source |-> r.source] : r \in SeqRange(batch)})
                  /\ pending_allocations' =
                        [pending_allocations EXCEPT ![i] = rest]
             ELSE /\ pending_allocations' =
                        [pending_allocations EXCEPT ![i] = Requeue(rest, batch)]
                  /\ UNCHANGED audit_table
    /\ UNCHANGED <<otherThanAlloc, global_id_counter, id_allocation_lock,
                   url_id_sequence, allocEnv, allocHealth, allocLocal,
                   active_locks, calls, granted, released, counter_loss>>

(***************************************************************************)
(* One call of _process_pending_syncs on a deque of up to 1000 records,    *)
(* the loop over the snapshot taken one record at a time.  The records     *)
(* older than 60 s are the first ones of the deque.                        *)
(***************************************************************************)
PendingLengths == {0, 1, 99, 100, 499, 500, 801, 1000}   \* len(pending_allocations)
OldRecords == {0, 1}                                     \* records older than 60 s
RequestRates == {0, 999, 1000, 5000, 5001}               \* self.current_rps

TickIdle == [pc |-> "idle", pending |-> 0, snapshot |-> 0, old |-> 0,
             current_rps |-> 0, j |-> 0, to_sync |-> 0]

TickInit == sync_tick = TickIdle

\* _process_pending_syncs: should_sync of one record.
should_sync(to_sync, current_rps, older_than_60, pending) ==
    \/ to_sync >= 1000
    \/ (to_sync >= 100 /\ current_rps > 5000)
    \/ older_than_60
    \/ pending > 800

\* _process_pending_syncs is called: an empty deque returns at once, else
\* the snapshot list(self.pending_allocations) is taken.
process_pending_syncs_called(n, old, rps) ==
    /\ sync_tick.pc = "idle"
    /\ old <= n
    /\ sync_tick' = [pc |-> IF n = 0 THEN "returned" ELSE "loop",
                     pending |-> n, snapshot |-> n, old |-> old,
                     current_rps |-> rps, j |-> 1, to_sync |-> 0]
    /\ UNCHANGED otherThanTick

\* One iteration of "for allocation in list(self.pending_allocations)": a
\* record that should be synced goes to to_sync and leaves the deque.
\* After the last one, a to_sync that is not empty goes to
\* _batch_sync_to_postgresql.
process_pending_syncs_iterates ==
    /\ sync_tick.pc = "loop"
    /\ LET t == sync_tick
           taken == should_sync(t.to_sync, t.current_rps, t.j <= t.old, t.pending)
       IN  sync_tick' =
             [t EXCEPT !.to_sync = IF taken THEN @ + 1 ELSE @,
                       !.pending = IF taken THEN @ - 1 ELSE @,
                       !.j = @ + 1,
                       !.pc = IF t.j = t.snapshot THEN "returned" ELSE "loop"]
    /\ UNCHANGED otherThanTick

SyncTickNext ==
    \/ \E n \in PendingLengths, old \in OldRecords, rps \in RequestRates :
          process_pending_syncs_called(n, old, rps)
    \/ process_pending_syncs_iterates

(***************************************************************************)
(* The environment of the allocator.                                       *)
(***************************************************************************)
\* The EX 10 of the lock key runs out.
id_allocation_lock_expires ==
    /\ id_allocation_lock # NoToken
    /\ id_allocation_lock' = NoToken
    /\ UNCHANGED <<otherThanAlloc, global_id_counter, audit_table,
                   url_id_sequence, allocEnv, allocHealth, allocLocal, apc,
                   active_locks, pending_allocations, calls, granted,
                   released, counter_loss>>

\* The primary cache comes back without its data (a restart without
\* persistence, a failover to an empty node): global_id_counter and the lock
\* key are gone.
global_id_counter_lost ==
    /\ redis_up
    /\ global_id_counter # None
    /\ outages < MaxOutages
    /\ outages' = outages + 1
    /\ global_id_counter' = None
    /\ id_allocation_lock' = NoToken
    /\ counter_loss' = [NoLoss EXCEPT !.lost = TRUE, !.before = granted]
    /\ UNCHANGED <<otherThanAlloc, audit_table, url_id_sequence, redis_up, pg_up,
                   allocHealth, allocLocal, apc, active_locks,
                   pending_allocations, calls, granted, released>>

\* The primary cache becomes unreachable, or reachable again.
redis_reachability ==
    /\ redis_up => outages < MaxOutages
    /\ redis_up' = ~redis_up
    /\ outages' = IF redis_up THEN outages + 1 ELSE outages
    /\ UNCHANGED <<otherThanAlloc, allocStore, pg_up, allocHealth, allocLocal, apc,
                   active_locks, pending_allocations, calls, granted,
                   released, counter_loss>>

\* The OLTP store becomes unreachable, or reachable again.
pg_reachability ==
    /\ pg_up => outages < MaxOutages
    /\ pg_up' = ~pg_up
    /\ outages' = IF pg_up THEN outages + 1 ELSE outages
    /\ UNCHANGED <<otherThanAlloc, allocStore, redis_up, allocHealth, allocLocal, apc,
                   active_locks, pending_allocations, calls, granted,
                   released, counter_loss>>

AllocNext ==
    \/ \E i \in Allocators :
         \/ initialize_redis_connections(i)
         \/ sync_allocation_state_get(i)
         \/ sync_allocation_state_max(i)
         \/ sync_allocation_state_set(i)
         \/ perform_health_checks(i)
         \/ \E size \in Sizes : allocate_unique_id_range(i, size)
         \/ acquire_distributed_lock(i)
         \/ allocate_from_redis_get(i)
         \/ allocate_from_redis_seed(i)
         \/ allocate_from_redis_set(i)
         \/ fast_redis_persist(i)
         \/ release_distributed_lock(i)
         \/ allocate_from_postgresql_nextval(i)
         \/ allocate_from_postgresql_commit(i)
         \/ process_pending_syncs(i)
    \/ id_allocation_lock_expires
    \/ redis_reachability
    \/ pg_reachability

\* The allocator asked for blocks of ID_BLOCK_SIZE, with calls that may be
\* cancelled, the cache that may become unreachable and the lock that may
\* run out; a call that leaves the cache path is not followed further.
AllocCancelNext ==
    \/ \E i \in Allocators :
         \/ initialize_redis_connections(i)
         \/ sync_allocation_state_get(i)
         \/ sync_allocation_state_max(i)
         \/ sync_allocation_state_set(i)
         \/ perform_health_checks(i)
         \/ allocate_unique_id_range(i, ID_BLOCK_SIZE)
         \/ acquire_distributed_lock(i)
         \/ allocate_from_redis_get(i)
         \/ allocate_from_redis_seed(i)
         \/ allocate_from_redis_set(i)
         \/ fast_redis_persist(i)
         \/ release_distributed_lock_recorded(i)
         \/ cancel_allocation(i)
    \/ id_allocation_lock_expires
    \/ redis_reachability

\* The sizes POST /allocate of the allocator service is asked for:
\* AllocateRequest.size is any integer.
\* The allocator asked for blocks of ID_BLOCK_SIZE while the cache may lose
\* its keys once; the lock does not run out and the backends stay reachable.
AllocRestoreNext ==
    \/ \E i \in Allocators :
         \/ initialize_redis_connections(i)
         \/ sync_allocation_state_get(i)
         \/ sync_allocation_state_max(i)
         \/ sync_allocation_state_set(i)
         \/ perform_health_checks(i)
         \/ allocate_unique_id_range(i, ID_BLOCK_SIZE)
         \/ acquire_distributed_lock(i)
         \/ allocate_from_redis_get(i)
         \/ allocate_from_redis_seed(i)
         \/ allocate_from_redis_set(i)
         \/ fast_redis_persist(i)
         \/ release_distributed_lock(i)
         \/ process_pending_syncs(i)
    \/ global_id_counter_lost

\* The OLTP store is reachable again.
pg_recovers == ~pg_up /\ pg_reachability

\* Blocks of ID_BLOCK_SIZE allocated on the cache path by both instances,
\* whose sync workers run for as long as the process; the OLTP store may
\* be unreachable for a while.  A call that leaves the cache path is not
\* followed further.
AllocSyncNext ==
    \/ \E i \in Allocators :
         \/ initialize_redis_connections(i)
         \/ sync_allocation_state_get(i)
         \/ sync_allocation_state_max(i)
         \/ sync_allocation_state_set(i)
         \/ perform_health_checks(i)
         \/ allocate_unique_id_range(i, ID_BLOCK_SIZE)
         \/ acquire_distributed_lock(i)
         \/ allocate_from_redis_get(i)
         \/ allocate_from_redis_seed(i)
         \/ allocate_from_redis_set(i)
         \/ fast_redis_persist(i)
         \/ release_distributed_lock(i)
         \/ process_pending_syncs(i)
    \/ id_allocation_lock_expires
    \/ pg_reachability

\* Blocks of ID_BLOCK_SIZE allocated on the cache path by both instances
\* until they are shut down; the OLTP store may be unreachable for a while.
AllocShutdownNext ==
    \/ \E i \in Allocators :
         \/ initialize_redis_connections(i)
         \/ sync_allocation_state_get(i)
         \/ sync_allocation_state_max(i)
         \/ sync_allocation_state_set(i)
         \/ perform_health_checks(i)
         \/ allocate_unique_id_range(i, ID_BLOCK_SIZE)
         \/ acquire_distributed_lock(i)
         \/ allocate_from_redis_get(i)
         \/ allocate_from_redis_seed(i)
         \/ allocate_from_redis_set(i)
         \/ fast_redis_persist(i)
         \/ release_distributed_lock(i)
         \/ process_pending_syncs(i)
         \/ shutdown(i)
    \/ id_allocation_lock_expires
    \/ pg_reachability

RequestSizes == {-1, 0, 1, MAX_BLOCK + 1}

\* One instance of the service serving requests of any size from the
\* cache, which stays reachable.
AllocSizesNext ==
    \/ initialize_redis_connections(1)
    \/ sync_allocation_state_get(1)
    \/ sync_allocation_state_max(1)
    \/ sync_allocation_state_set(1)
    \/ perform_health_checks(1)
    \/ \E size \in RequestSizes : allocate_unique_id_range(1, size)
    \/ acquire_distributed_lock(1)
    \/ allocate_from_redis_get(1)
    \/ allocate_from_redis_set(1)
    \/ fast_redis_persist(1)
    \/ release_distributed_lock(1)
    \/ process_pending_syncs(1)

(***************************************************************************)
(* The standalone keygen service (services/keygen_py/main.py): one process *)
(* serving POST /allocate from a primary and a secondary cache backend,    *)
(* each of them a server of its own holding its own ID_ALLOCATOR_KEY.      *)
(***************************************************************************)
KeygenRequests == 1..NumKeygenRequests
KeygenBackends == <<"primary", "secondary">>     \* redis_clients, in order
KeygenSizes == (0..MaxSmallSize) \cup {ID_BLOCK_SIZE}

\* startup: the two clients are created, nothing is sent to the servers.
KeygenInit ==
    /\ keygen_redis = [b \in {"primary", "secondary"} |-> 0]
    /\ keygen_up = [b \in {"primary", "secondary"} |-> TRUE]
    /\ keygen_outages = 0
    /\ kpc = [r \in KeygenRequests |-> "idle"]
    /\ keygen_size = [r \in KeygenRequests |-> 0]
    /\ keygen_calls = 0
    /\ keygen_granted = {}

\* allocate: size <= 0 is answered 400, anything else goes to the backends.
allocate(r, size) ==
    /\ kpc[r] = "idle"
    /\ keygen_calls < MaxKeygenCalls
    /\ keygen_calls' = keygen_calls + 1
    /\ IF size <= 0
       THEN UNCHANGED <<kpc, keygen_size>>
       ELSE /\ kpc' = [kpc EXCEPT ![r] = KeygenBackends[1]]
            /\ keygen_size' = [keygen_size EXCEPT ![r] = size]
    /\ UNCHANGED <<otherThanKeygen, keygen_redis, keygen_up,
                   keygen_outages, keygen_granted>>

\* What INCRBY ID_ALLOCATOR_KEY size makes of the reply.
KeygenRange(end_value, size) ==
    [start |-> end_value - size + 1, end |-> end_value]

\* _allocate_from_with_fallback: one turn of the loop over redis_clients.
\* INCRBY on the client the request stands at; on an exception the next
\* client is tried, and after the last one the request is answered 503.
allocate_from_with_fallback(r) ==
    /\ kpc[r] \in {"primary", "secondary"}
    /\ LET client == kpc[r]
           end_value == keygen_redis[client] + keygen_size[r]
       IN  IF keygen_up[client]
           THEN /\ keygen_redis' = [keygen_redis EXCEPT ![client] = end_value]
                /\ keygen_granted' = keygen_granted \cup
                      {[req |-> r, backend |-> client,
                        start |-> KeygenRange(end_value, keygen_size[r]).start,
                        end |-> KeygenRange(end_value, keygen_size[r]).end]}
                /\ kpc' = [kpc EXCEPT ![r] = "idle"]
                /\ keygen_size' = [keygen_size EXCEPT ![r] = 0]
           ELSE /\ kpc' = [kpc EXCEPT ![r] =
                      IF client = KeygenBackends[1] THEN KeygenBackends[2]
                      ELSE "idle"]
                /\ keygen_size' = [keygen_size EXCEPT ![r] =
                      IF client = KeygenBackends[1] THEN @ ELSE 0]
                /\ UNCHANGED <<keygen_redis, keygen_granted>>
    /\ UNCHANGED <<otherThanKeygen, keygen_up, keygen_outages, keygen_calls>>

\* A keygen backend becomes unreachable, or reachable again.
keygen_reachability(b) ==
    /\ keygen_up[b] => keygen_outages < MaxKeygenOutages
    /\ keygen_up' = [keygen_up EXCEPT ![b] = ~@]
    /\ keygen_outages' = IF keygen_up[b] THEN keygen_outages + 1
                         ELSE keygen_outages
    /\ UNCHANGED <<otherThanKeygen, keygen_redis, kpc, keygen_size,
                   keygen_calls, keygen_granted>>

KeygenNext ==
    \/ \E r \in KeygenRequests :
         \/ \E size \in KeygenSizes : allocate(r, size)
         \/ allocate_from_with_fallback(r)
    \/ \E b \in {"primary", "secondary"} : keygen_reachability(b)

(***************************************************************************)
(* The shortening service (app/url_service.py): create and lookup.         *)
(***************************************************************************)
Tasks == 1..NumTasks

BASE62_ALPHABET ==
    <<"0", "1", "2", "3", "4", "5", "6", "7", "8", "9",
      "a", "b", "c", "d", "e", "f", "g", "h", "i", "j", "k", "l", "m",
      "n", "o", "p", "q", "r", "s", "t", "u", "v", "w", "x", "y", "z",
      "A", "B", "C", "D", "E", "F", "G", "H", "I", "J", "K", "L", "M",
      "N", "O", "P", "Q", "R", "S", "T", "U", "V", "W", "X", "Y", "Z">>

\* _base62_encode: the digits of number, most significant first.
RECURSIVE base62_encode(_)
base62_encode(number) ==
    LET base == Len(BASE62_ALPHABET)
    IN  IF number < base THEN BASE62_ALPHABET[number + 1]
        ELSE base62_encode(number \div base) \o BASE62_ALPHABET[(number % base) + 1]

\* app/service.py: ALPHABET, letters first.
ALPHABET ==
    <<"a", "b", "c", "d", "e", "f", "g", "h", "i", "j", "k", "l", "m",
      "n", "o", "p", "q", "r", "s", "t", "u", "v", "w", "x", "y", "z",
      "A", "B", "C", "D", "E", "F", "G", "H", "I", "J", "K", "L", "M",
      "N", "O", "P", "Q", "R", "S", "T", "U", "V", "W", "X", "Y", "Z",
      "0", "1", "2", "3", "4", "5", "6", "7", "8", "9">>

\* app/service.py _base62_encode: the same loop over ALPHABET.
RECURSIVE service_base62_encode(_)
service_base62_encode(value) ==
    LET base == Len(ALPHABET)
    IN  IF value < base THEN ALPHABET[value + 1]
        ELSE service_base62_encode(value \div base) \o ALPHABET[(value % base) + 1]

\* str.rjust(width, fillchar)
RECURSIVE rjust(_, _, _)
rjust(str, width, fillchar) ==
    IF Len(str) >= width THEN str ELSE rjust(fillchar \o str, width, fillchar)

\* The code of an allocated ID padded with the symbol of the digit one.
ShortCodeOfPaddedWithOne(allocated_id) ==
    rjust(base62_encode(allocated_id), SHORT_CODE_LENGTH, BASE62_ALPHABET[2])

\* _allocate_short_code_with_cache: the code of an allocated ID.
ShortCodeOf(allocated_id) ==
    rjust(base62_encode(allocated_id), SHORT_CODE_LENGTH, BASE62_ALPHABET[1])

\* app/service.py _generate_short_code_from_allocator: the same over ALPHABET.
ServiceShortCodeOf(allocated_id) ==
    rjust(service_base62_encode(allocated_id), SHORT_CODE_LENGTH, ALPHABET[1])

\* The IDs the app can draw within MaxRequests requests: the first IDs of
\* the first blocks.
PossibleIds ==
    {b * ID_BLOCK_SIZE + k : b \in 0..(MaxRequests - 1), k \in 1..MaxRequests}

\* Inputs: URLCreate.url, URLCreate.custom_code (valid ones: 3 to 20
\* alphanumeric characters; one of them spells the code of ID 1).
OriginalUrls == {"https://a.example", "https://b.example"}
CustomCodes == {"abc", ShortCodeOf(1)}
NoCode == ""                 \* custom_code is None

\* A custom_code as the characters it is made of, and the string they spell.
RECURSIVE JoinChars(_)
JoinChars(v) == IF v = <<>> THEN "" ELSE Head(v) \o JoinChars(Tail(v))

Repeat(ch, n) == [k \in 1..n |-> ch]

\* The characters of the code alphabet.
InCodeAlphabet(ch) == \E k \in 1..Len(BASE62_ALPHABET) : BASE62_ALPHABET[k] = ch

\* Characters outside ASCII that str.isalnum() counts as alphanumeric
\* (letters and digits of any script), as far as the inputs use them.
UnicodeAlnum == {"é"}

\* str.isalnum(): not empty, and every character a letter or a digit.
isalnum(v) ==
    /\ v # <<>>
    /\ \A k \in 1..Len(v) : InCodeAlphabet(v[k]) \/ v[k] \in UnicodeAlnum

\* URLCreate.validate_custom_code: TRUE when the validator returns v, FALSE
\* when it raises ValueError (422).  <<>> stands for None.
validate_custom_code(v) ==
    \/ v = <<>>
    \/ /\ ~(Len(v) < 3 \/ Len(v) > 20)
       /\ isalnum(v)

\* custom_code values a POST /api/shorten may carry: of 2, 3, 20 and 21
\* characters, with punctuation, with a letter outside the code alphabet.
CustomCodeInputs ==
    {<<"a", "b">>, <<"a", "b", "c">>, Repeat("a", 20), Repeat("a", 21),
     <<"m", "y", "-", "c", "o", "d", "e", "!">>, <<"a", "b", "é">>}

Codes == CustomCodes \cup {ShortCodeOf(n) : n \in PossibleIds}
            \cup {JoinChars(v) : v \in {x \in CustomCodeInputs : validate_custom_code(x)}}

\* The URL object a lookup that found nothing holds (None), and an absent
\* cache key.
NoUrl == [id |-> 0, short_code |-> "", original_url |-> "", clicks |-> 0]
NoEntry == NoUrl

\* lock:url:<code> is absent.  A key that is set holds "1" whoever set it;
\* the model keeps the task whose SET NX created it.
Unlocked == 0

\* A request task that serves nothing.
IdleTask ==
    [pc |-> "idle", op |-> "none", seq |-> 0, code |-> "", url |-> "",
     custom |-> NoCode, obj |-> NoUrl, lock |-> FALSE, via |-> "", expect |-> "",
     n |-> 0, cond |-> "", queued |-> 0, streamed |-> 0, publish |-> "",
     fault |-> FALSE]

\* The app at startup: empty table, empty cache, no ID block.
AppInit ==
    /\ urls = {}
    /\ urls_next_id = 1
    /\ url_cache = [c \in Codes |-> NoEntry]
    /\ url_cache_replica = [c \in Codes |-> NoEntry]
    /\ url_lock = [c \in Codes |-> Unlocked]
    /\ id_allocation_next = 0
    /\ id_allocation_end = -1
    /\ keygen_service_key = 0
    /\ id_allocator_python = 0
    /\ task = [t \in Tasks |-> IdleTask]
    /\ requests = 0
    /\ responses = {}
    /\ window_reads = [c \in Codes |-> 0]

\* select(URL).where(URL.short_code == short_code)
SelectByShortCode(rows, short_code) == {r \in rows : r.short_code = short_code}

\* scalar_one_or_none()
ScalarOneOrNone(rows) == IF rows = {} THEN NoUrl ELSE CHOOSE r \in rows : TRUE

\* The unique index on urls.short_code without its check.
UniqueViolationUnchecked(rows, short_code) == FALSE

\* The unique index on urls.short_code refuses a second row with the code.
UniqueViolation(rows, short_code) == SelectByShortCode(rows, short_code) # {}

\* CachedURLPayload.model_validate(url): the fields the payload keeps.
CachedURLPayload(url) ==
    [id |-> url.id, short_code |-> url.short_code,
     original_url |-> url.original_url, clicks |-> url.clicks]

\* The URL object built with the payload's fields mixed up.
URLFromPayloadMixed(payload) ==
    [id |-> payload.id, short_code |-> payload.short_code,
     original_url |-> payload.short_code, clicks |-> payload.clicks]

\* _lookup_from_cache: the URL object built from a payload.
URLFromPayload(payload) ==
    [id |-> payload.id, short_code |-> payload.short_code,
     original_url |-> payload.original_url, clicks |-> payload.clicks]

\* The response a request ends with.
Response(t, rec, status) ==
    [task |-> t, seq |-> rec.seq, ended |-> requests, op |-> rec.op,
     code |-> rec.code, custom |-> rec.custom, url |-> rec.url,
     status |-> status, at |-> rec.pc, obj |-> rec.obj, via |-> rec.via,
     lock |-> rec.lock, expect |-> rec.expect, n |-> rec.n, cond |-> rec.cond,
     queued |-> rec.queued, streamed |-> rec.streamed, publish |-> rec.publish,
     fault |-> rec.fault]

\* The request of task t ends with the given status.
Respond(t, rec, status) ==
    /\ task' = [task EXCEPT ![t] = IdleTask]
    /\ responses' = responses \cup {Response(t, rec, status)}

\* The original_url a create that returned has bound to the code, if any.
CreatedUrl(short_code) ==
    LET done == {r \in responses : r.op = "create" /\ r.status = "created"
                                   /\ r.code = short_code}
    IN  IF done = {} THEN "" ELSE (CHOOSE r \in done : TRUE).url

\* create_short_url, up to its first await: a custom code goes to the
\* uniqueness SELECT; otherwise an ID is drawn from the local block, after
\* a refill when the block is used up.
create_short_url(t, url, custom) ==
    /\ task[t].pc = "idle"
    /\ requests < MaxRequests
    /\ requests' = requests + 1
    /\ LET rec == [IdleTask EXCEPT !.op = "create", !.seq = requests + 1,
                                   !.url = url, !.custom = custom]
       IN  IF custom # NoCode
           THEN /\ task' = [task EXCEPT ![t] = [rec EXCEPT !.pc = "cr_exists"]]
                /\ UNCHANGED id_allocation_next
           ELSE IF id_allocation_next > id_allocation_end
           THEN /\ task' = [task EXCEPT ![t] = [rec EXCEPT !.pc = "cr_refill"]]
                /\ UNCHANGED id_allocation_next
           ELSE /\ task' = [task EXCEPT ![t] =
                      [rec EXCEPT !.pc = "cr_insert",
                                  !.code = ShortCodeOf(id_allocation_next)]]
                /\ id_allocation_next' = id_allocation_next + 1
    /\ UNCHANGED <<otherThanApp, appStore, id_allocation_end,
                   keygen_service_key, id_allocator_python, responses,
                   window_reads>>

\* shorten_url: the body is parsed into URLCreate, whose validators run
\* before the route's code; a ValueError of theirs is answered 422 and
\* nothing else runs.  Otherwise the route calls create_short_url.
shorten_url(t, url, v) ==
    IF validate_custom_code(v)
    THEN create_short_url(t, url, JoinChars(v))
    ELSE /\ task[t].pc = "idle"
         /\ requests < MaxRequests
         /\ requests' = requests + 1
         /\ Respond(t, [IdleTask EXCEPT !.op = "create", !.seq = requests + 1,
                                        !.url = url, !.custom = JoinChars(v)],
                    "invalid")
         /\ UNCHANGED <<otherThanApp, appStore, appBlock, window_reads>>

\* A custom code taken to be free whatever the SELECT returned.
CustomCodeTakenNever(existing) == FALSE

\* _generate_or_validate_short_code: "if existing.scalar_one_or_none():".
CustomCodeTaken(existing) == existing # NoUrl

\* _generate_or_validate_short_code: the SELECT for the custom code.
generate_or_validate_short_code(t) ==
    /\ task[t].pc = "cr_exists"
    /\ LET rec == task[t]
           existing == ScalarOneOrNone(SelectByShortCode(urls, rec.custom))
       IN  IF CustomCodeTaken(existing)
           THEN Respond(t, rec, "conflict")                  \* ValueError
           ELSE /\ task' = [task EXCEPT ![t] =
                      [rec EXCEPT !.pc = "cr_insert", !.code = rec.custom]]
                /\ UNCHANGED responses
    /\ UNCHANGED <<otherThanApp, appStore, appBlock, requests, window_reads>>

\* _allocate_id_block, then the rest of _allocate_short_code_with_cache:
\* the block comes from the keygen service or, when that raises, from
\* INCRBY on the cache; the globals are overwritten and an ID is drawn.
allocate_id_block(t) ==
    /\ task[t].pc = "cr_refill"
    /\ \E keygen_answers \in BOOLEAN :
         LET counter == IF keygen_answers THEN keygen_service_key
                        ELSE id_allocator_python
             end_value == counter + ID_BLOCK_SIZE
             start_value == end_value - ID_BLOCK_SIZE + 1
         IN  /\ IF keygen_answers
                THEN /\ keygen_service_key' = end_value
                     /\ UNCHANGED id_allocator_python
                ELSE /\ id_allocator_python' = end_value
                     /\ UNCHANGED keygen_service_key
             /\ id_allocation_next' = start_value + 1
             /\ id_allocation_end' = end_value
             /\ task' = [task EXCEPT ![t] =
                   [@ EXCEPT !.pc = "cr_insert",
                             !.code = ShortCodeOf(start_value)]]
    /\ UNCHANGED <<otherThanApp, appStore, requests, responses, window_reads>>

(***************************************************************************)
(* _allocate_short_code_with_cache and _allocate_id_block await by await,  *)
(* with the blocks granted and the IDs drawn kept in block_log.  Other     *)
(* clients take blocks from the same two counters.  Between the last await *)
(* of _allocate_id_block and the draw nothing else runs.                   *)
(***************************************************************************)
MaxGrants == 4          \* blocks granted, to this process or another client
MaxDraws == 5           \* calls of _allocate_short_code_with_cache
BlockSources == {"keygen", "cache"}

BlockLogInit ==
    block_log = [grants |-> <<>>, installed |-> 0, draws |-> <<>>, calls |-> 0]

\* The block a counter gives after INCRBY ID_BLOCK_SIZE.
GrantedBlock(counter, origin, owner) ==
    [start |-> counter + 1, end |-> counter + ID_BLOCK_SIZE,
     source |-> origin, owner |-> owner]

\* A draw that leaves _id_allocation_next where it was.
NextAfterDrawSame(allocated_id) == allocated_id

\* _id_allocation_next += 1
NextAfterDraw(allocated_id) == allocated_id + 1

\* _allocate_short_code_with_cache up to its first await: with IDs left in
\* the block one is drawn at once, else _allocate_id_block is awaited.
allocate_short_code_begins(t) ==
    /\ task[t].pc = "idle"
    /\ block_log.calls < MaxDraws
    /\ IF id_allocation_next > id_allocation_end
       THEN /\ task' = [task EXCEPT ![t] =
                  [IdleTask EXCEPT !.pc = "blk_post", !.op = "short_code"]]
            /\ block_log' = [block_log EXCEPT !.calls = @ + 1]
            /\ UNCHANGED id_allocation_next
       ELSE /\ id_allocation_next' = NextAfterDraw(id_allocation_next)
            /\ block_log' =
                  [block_log EXCEPT
                     !.calls = @ + 1,
                     !.draws = Append(@, [first |-> id_allocation_next,
                                          last |-> id_allocation_next,
                                          grant |-> block_log.installed])]
            /\ UNCHANGED task
    /\ UNCHANGED <<otherThanBlocks, id_allocation_end, keygen_service_key,
                   id_allocator_python>>

\* Many calls in a row, none refilling: the IDs of the installed block up
\* to the last but one are drawn.
allocate_short_codes_to_block_end(t) ==
    /\ task[t].pc = "idle"
    /\ block_log.calls < MaxDraws
    /\ id_allocation_next < id_allocation_end
    /\ NextAfterDraw(id_allocation_next) # id_allocation_next
    /\ id_allocation_next' = id_allocation_end
    /\ block_log' =
          [block_log EXCEPT
             !.calls = @ + 1,
             !.draws = Append(@, [first |-> id_allocation_next,
                                  last |-> id_allocation_end - 1,
                                  grant |-> block_log.installed])]
    /\ UNCHANGED <<otherThanBlocks, task, id_allocation_end,
                   keygen_service_key, id_allocator_python>>

\* _allocate_id_block: POST /allocate to the keygen service, which answers
\* with the next block of its counter, or raises.
allocate_id_block_post(t, answers) ==
    /\ task[t].pc = "blk_post"
    /\ IF answers
       THEN /\ Len(block_log.grants) < MaxGrants
            /\ keygen_service_key' = keygen_service_key + ID_BLOCK_SIZE
            /\ block_log' =
                  [block_log EXCEPT !.grants =
                     Append(@, GrantedBlock(keygen_service_key, "keygen", "self"))]
            /\ task' = [task EXCEPT ![t] =
                  [@ EXCEPT !.pc = "blk_return",
                            !.n = Len(block_log.grants) + 1]]
       ELSE /\ task' = [task EXCEPT ![t] = [@ EXCEPT !.pc = "blk_incrby"]]
            /\ UNCHANGED <<keygen_service_key, block_log>>
    /\ UNCHANGED <<otherThanBlocks, id_allocation_next, id_allocation_end,
                   id_allocator_python>>

\* _allocate_id_block, except branch: INCRBY <ID_ALLOCATOR_KEY>:python
\* ID_BLOCK_SIZE on the app's cache.
allocate_id_block_incrby(t) ==
    /\ task[t].pc = "blk_incrby"
    /\ Len(block_log.grants) < MaxGrants
    /\ id_allocator_python' = id_allocator_python + ID_BLOCK_SIZE
    /\ block_log' =
          [block_log EXCEPT !.grants =
             Append(@, GrantedBlock(id_allocator_python, "cache", "self"))]
    /\ task' = [task EXCEPT ![t] =
          [@ EXCEPT !.pc = "blk_return", !.n = Len(block_log.grants) + 1]]
    /\ UNCHANGED <<otherThanBlocks, id_allocation_next, id_allocation_end,
                   keygen_service_key>>

\* _allocate_id_block after its last await: the globals are overwritten;
\* back in _allocate_short_code_with_cache the first ID is drawn.
allocate_id_block_returns(t) ==
    /\ task[t].pc = "blk_return"
    /\ LET block == block_log.grants[task[t].n]
       IN  /\ id_allocation_next' = NextAfterDraw(block.start)
           /\ id_allocation_end' = block.end
           /\ block_log' =
                 [block_log EXCEPT
                    !.installed = task[t].n,
                    !.draws = Append(@, [first |-> block.start,
                                         last |-> block.start,
                                         grant |-> task[t].n])]
    /\ task' = [task EXCEPT ![t] = IdleTask]
    /\ UNCHANGED <<otherThanBlocks, keygen_service_key, id_allocator_python>>

\* Another client takes a block: another app process from the keygen
\* service or, by its own fallback, from the same key of the cache.
another_client_allocates(origin) ==
    /\ Len(block_log.grants) < MaxGrants
    /\ IF origin = "keygen"
       THEN /\ keygen_service_key' = keygen_service_key + ID_BLOCK_SIZE
            /\ UNCHANGED id_allocator_python
       ELSE /\ id_allocator_python' = id_allocator_python + ID_BLOCK_SIZE
            /\ UNCHANGED keygen_service_key
    /\ block_log' =
          [block_log EXCEPT !.grants =
             Append(@, GrantedBlock(IF origin = "keygen"
                                    THEN keygen_service_key
                                    ELSE id_allocator_python,
                                    origin, "other"))]
    /\ UNCHANGED <<otherThanBlocks, task, id_allocation_next,
                   id_allocation_end>>

BlocksNext ==
    \/ \E t \in Tasks :
         \/ allocate_short_code_begins(t)
         \/ allocate_short_codes_to_block_end(t)
         \/ \E answers \in BOOLEAN : allocate_id_block_post(t, answers)
         \/ allocate_id_block_incrby(t)
         \/ allocate_id_block_returns(t)
    \/ \E origin \in BlockSources : another_client_allocates(origin)

\* _store_url_in_database: INSERT and commit; the unique index raises
\* IntegrityError, which is rolled back and raised as ValueError.
store_url_in_database(t) ==
    /\ task[t].pc = "cr_insert"
    /\ LET rec == task[t]
           url == [id |-> urls_next_id, short_code |-> rec.code,
                   original_url |-> rec.url, clicks |-> 0]
       IN  IF UniqueViolation(urls, rec.code)
           THEN /\ Respond(t, rec, "conflict")
                /\ UNCHANGED <<urls, urls_next_id>>
           ELSE /\ urls' = urls \cup {url}
                /\ urls_next_id' = urls_next_id + 1
                /\ task' = [task EXCEPT ![t] =
                      [rec EXCEPT !.pc = "cr_cache", !.obj = url]]
                /\ UNCHANGED responses
    /\ UNCHANGED <<otherThanApp, url_cache, url_cache_replica, url_lock,
                   appBlock, requests, window_reads>>

\* lookup_url_by_code, up to its first await.
lookup_url_by_code(t, short_code) ==
    /\ task[t].pc = "idle"
    /\ requests < MaxRequests
    /\ requests' = requests + 1
    /\ task' = [task EXCEPT ![t] =
          [IdleTask EXCEPT !.pc = "lk_cache", !.op = "lookup",
                           !.seq = requests + 1, !.code = short_code,
                           !.expect = CreatedUrl(short_code)]]
    /\ UNCHANGED <<otherThanApp, appStore, appBlock, responses, window_reads>>
\* Every lookup taken to have found a URL.
UrlFoundAlways(url) == TRUE

\* "if url:" of the callers of lookup_url_by_code.
UrlFound(url) == url # NoUrl

\* lookup_url_by_code returns rec.obj to its caller: the lookup itself, the
\* redirect route (404, or on to track_url_click) or get_url_statistics
\* (None, or on to the buffered clicks).
LookupReturns(t, rec) ==
    IF rec.op = "lookup" \/ ~UrlFound(rec.obj)
    THEN Respond(t, rec, IF UrlFound(rec.obj) THEN "ok" ELSE "not_found")
    ELSE /\ task' = [task EXCEPT ![t] =
               [rec EXCEPT !.pc = IF rec.op = "redirect" THEN "tr_incr"
                                  ELSE "st_buffer"]]
         /\ UNCHANGED responses

\* The finally clause of lookup_url_by_code: release the lock if this task
\* set it, then return.
LookupFinally(t, rec) ==
    IF rec.lock
    THEN /\ task' = [task EXCEPT ![t] = [rec EXCEPT !.pc = "lk_release"]]
         /\ UNCHANGED responses
    ELSE LookupReturns(t, rec)

\* _lookup_from_cache: GET url:<code> on the read replica, before the lock
\* and again after it.
lookup_from_cache(t) ==
    /\ task[t].pc \in {"lk_cache", "lk_recheck"}
    /\ LET rec == task[t]
           cached_data == url_cache_replica[rec.code]
           hit == [rec EXCEPT !.obj = URLFromPayload(cached_data),
                              !.via = "cache"]
       IN  IF cached_data # NoEntry
           THEN IF rec.pc = "lk_cache" THEN LookupReturns(t, hit)
                ELSE LookupFinally(t, hit)
           ELSE /\ task' = [task EXCEPT ![t] =
                      [rec EXCEPT !.pc = IF rec.pc = "lk_cache" THEN "lk_lock"
                                         ELSE "lk_db"]]
                /\ UNCHANGED responses
    /\ UNCHANGED <<otherThanApp, appStore, appBlock, requests, window_reads>>

\* _acquire_distributed_lock of the lookup: SET lock:url:<code> 1 NX EX 3,
\* tried once; the lookup goes on whether or not the key was set.
url_acquire_distributed_lock(t) ==
    /\ task[t].pc = "lk_lock"
    /\ LET rec == task[t]
           locked == url_lock[rec.code] = Unlocked
       IN  /\ url_lock' = IF locked THEN [url_lock EXCEPT ![rec.code] = t]
                          ELSE url_lock
           /\ window_reads' = IF locked
                              THEN [window_reads EXCEPT ![rec.code] = 0]
                              ELSE window_reads
           /\ task' = [task EXCEPT ![t] =
                 [rec EXCEPT !.pc = "lk_recheck", !.lock = locked]]
    /\ UNCHANGED <<otherThanApp, urls, urls_next_id, url_cache,
                   url_cache_replica, appBlock, requests, responses>>

\* _lookup_from_database: the OLTP read of the lookup.
lookup_from_database(t) ==
    /\ task[t].pc = "lk_db"
    /\ LET rec == task[t]
           url == ScalarOneOrNone(SelectByShortCode(urls, rec.code))
           got == [rec EXCEPT !.obj = url, !.via = "oltp"]
       IN  /\ window_reads' = [window_reads EXCEPT ![rec.code] = @ + 1]
           /\ IF url # NoUrl
              THEN /\ task' = [task EXCEPT ![t] = [got EXCEPT !.pc = "lk_setex"]]
                   /\ UNCHANGED responses
              ELSE LookupFinally(t, got)
    /\ UNCHANGED <<otherThanApp, appStore, appBlock, requests>>

\* _cache_url_object: SETEX url:<code> 3600 <payload> on the primary, at the
\* end of create and after the OLTP read of a lookup.
cache_url_object(t) ==
    /\ task[t].pc \in {"cr_cache", "lk_setex"}
    /\ LET rec == task[t]
       IN  /\ url_cache' = [url_cache EXCEPT ![rec.obj.short_code] =
                                CachedURLPayload(rec.obj)]
           /\ IF rec.pc = "cr_cache" THEN Respond(t, rec, "created")
              ELSE LookupFinally(t, rec)
    /\ UNCHANGED <<otherThanApp, urls, urls_next_id, url_cache_replica,
                   url_lock, appBlock, requests, window_reads>>

\* _release_distributed_lock of the lookup: DEL lock:url:<code>.
url_release_distributed_lock(t) ==
    /\ task[t].pc = "lk_release"
    /\ url_lock' = [url_lock EXCEPT ![task[t].code] = Unlocked]
    /\ LookupReturns(t, task[t])
    /\ UNCHANGED <<otherThanApp, urls, urls_next_id, url_cache,
                   url_cache_replica, appBlock, requests, window_reads>>

(***************************************************************************)
(* The cache servers of the app.                                           *)
(***************************************************************************)
\* The TTL of url:<code> runs out on the primary.
url_cache_expires(c) ==
    /\ url_cache[c] # NoEntry
    /\ url_cache' = [url_cache EXCEPT ![c] = NoEntry]
    /\ UNCHANGED <<otherThanApp, urls, urls_next_id, url_cache_replica,
                   url_lock, appBlock, appTasks>>

\* The EX 3 of lock:url:<code> runs out.
url_lock_expires(c) ==
    /\ url_lock[c] # Unlocked
    /\ url_lock' = [url_lock EXCEPT ![c] = Unlocked]
    /\ UNCHANGED <<otherThanApp, urls, urls_next_id, url_cache,
                   url_cache_replica, appBlock, appTasks>>

\* The replica (REDIS_REPLICA_URL) applies the primary's state of a key.
url_cache_replicates(c) ==
    /\ url_cache_replica[c] # url_cache[c]
    /\ url_cache_replica' = [url_cache_replica EXCEPT ![c] = url_cache[c]]
    /\ UNCHANGED <<otherThanApp, urls, urls_next_id, url_cache, url_lock,
                   appBlock, appTasks>>

UrlNext ==
    \/ \E t \in Tasks :
         \/ \E url \in OriginalUrls, custom \in CustomCodes \cup {NoCode} :
              create_short_url(t, url, custom)
         \/ generate_or_validate_short_code(t)
         \/ allocate_id_block(t)
         \/ store_url_in_database(t)
         \/ \E short_code \in CustomCodes : lookup_url_by_code(t, short_code)
         \/ lookup_from_cache(t)
         \/ url_acquire_distributed_lock(t)
         \/ lookup_from_database(t)
         \/ cache_url_object(t)
         \/ url_release_distributed_lock(t)
    \/ \E c \in Codes :
         \/ url_cache_expires(c)
         \/ url_lock_expires(c)
         \/ url_cache_replicates(c)

\* Numbers handed to the encoders: the ends of the one-digit and two-digit
\* ranges, the values of the tests, a negative one.
EncodeInputs == {-1, 0, 1, 61, 62, 3843, 3844, 12345, 999999}

\* A call of url_service._base62_encode(number): ValueError for a negative
\* number, the digits otherwise.
url_service_base62_encode(t, number) ==
    /\ task[t].pc = "idle"
    /\ requests < MaxRequests
    /\ requests' = requests + 1
    /\ LET rec == [IdleTask EXCEPT !.op = "encode", !.seq = requests + 1,
                                   !.n = number, !.via = "url_service"]
       IN  IF number < 0
           THEN Respond(t, rec, "ValueError")
           ELSE Respond(t, [rec EXCEPT !.code = base62_encode(number)], "ok")
    /\ UNCHANGED <<otherThanApp, appStore, appBlock, window_reads>>

\* A call of service._base62_encode(value): the assert fails for a negative
\* value.
service_encode(t, value) ==
    /\ task[t].pc = "idle"
    /\ requests < MaxRequests
    /\ requests' = requests + 1
    /\ LET rec == [IdleTask EXCEPT !.op = "encode", !.seq = requests + 1,
                                   !.n = value, !.via = "service"]
       IN  IF ~(value >= 0)
           THEN Respond(t, rec, "AssertionError")
           ELSE Respond(t, [rec EXCEPT !.code = service_base62_encode(value)], "ok")
    /\ UNCHANGED <<otherThanApp, appStore, appBlock, window_reads>>

\* IDs the allocators hand out: the first ones, the ends of the one-digit
\* and two-digit ranges, the ends of a block, the first of the counter's
\* base, the largest.
AllocatedIds == {1, 61, 62, 1000, 1001, 3843, 3844, INITIAL_COUNTER + 1, MAX_INT}

\* The end of _allocate_short_code_with_cache for a drawn ID: encode, pad.
allocate_short_code_with_cache(t, allocated_id) ==
    /\ task[t].pc = "idle"
    /\ requests < MaxRequests
    /\ requests' = requests + 1
    /\ Respond(t, [IdleTask EXCEPT !.op = "short_code", !.seq = requests + 1,
                                   !.n = allocated_id, !.via = "url_service",
                                   !.code = ShortCodeOf(allocated_id)], "ok")
    /\ UNCHANGED <<otherThanApp, appStore, appBlock, window_reads>>

\* The end of service._generate_short_code_from_allocator for a drawn ID.
generate_short_code_from_allocator(t, allocated_id) ==
    /\ task[t].pc = "idle"
    /\ requests < MaxRequests
    /\ requests' = requests + 1
    /\ Respond(t, [IdleTask EXCEPT !.op = "short_code", !.seq = requests + 1,
                                   !.n = allocated_id, !.via = "service",
                                   !.code = ServiceShortCodeOf(allocated_id)], "ok")
    /\ UNCHANGED <<otherThanApp, appStore, appBlock, window_reads>>

\* Calls of the two encoders and of the two code generators.
EncodeNext ==
    \E t \in Tasks :
       \/ \E number \in EncodeInputs :
            \/ url_service_base62_encode(t, number)
            \/ service_encode(t, number)
       \/ \E allocated_id \in AllocatedIds :
            \/ allocate_short_code_with_cache(t, allocated_id)
            \/ generate_short_code_from_allocator(t, allocated_id)

\* POST /api/shorten with every custom_code of CustomCodeInputs or none.
ShortenNext ==
    \E t \in Tasks :
       \/ \E url \in OriginalUrls, v \in CustomCodeInputs \cup {<<>>} :
            shorten_url(t, url, v)
       \/ generate_or_validate_short_code(t)
       \/ allocate_id_block(t)
       \/ store_url_in_database(t)
       \/ cache_url_object(t)

(***************************************************************************)
(* Click tracking and statistics (app/url_service.py, app/service.py,      *)
(* app/kafka.py, app/routes.py).                                           *)
(***************************************************************************)
\* The code the click requests of the model are about, and the tasks that
\* serve redirects and statistics.
ClickCodes == {"abc"}
ClickTasks == 1..NumClickTasks

\* ClickEvent(short_code=..., delta=...)
ClickEvent(short_code, delta) == [short_code |-> short_code, delta |-> delta]

\* GET click_buffer:<code>: int(value) if value else 0.
BufferedClickCount(c) ==
    IF click_buffer_ttl[c] = "absent" THEN 0 ELSE click_buffer[c]

\* The app before its startup: no producer yet, no click was buffered,
\* published or written to the stream.
ClickInit ==
    /\ click_buffer = [c \in Codes |-> 0]
    /\ click_buffer_ttl = [c \in Codes |-> "absent"]
    /\ kafka_up = TRUE
    /\ kafka_outages = 0
    /\ producer = "unset"
    /\ click_queue = <<>>
    /\ click_stream = <<>>
    /\ faults = 0

\* init_kafka, at the app's startup: _producer stays None when the start of
\* the producer raises.
init_kafka ==
    /\ producer = "unset"
    /\ producer' = IF kafka_up THEN "started" ELSE "None"
    /\ UNCHANGED <<otherThanClicks, urls, url_cache, appTasks, clickBuffer,
                   kafka_up, kafka_outages, click_queue, click_stream, faults,
                   ingestVars>>

\* The redirects of a code that have returned 307.
RedirectsOf(c) ==
    Cardinality({r \in responses : r.op = "redirect" /\ r.code = c
                                   /\ r.status = "redirected"})

\* The sum of the deltas a sequence of click events carries for a code.
RECURSIVE SumDeltas(_, _)
SumDeltas(events, c) ==
    IF events = <<>> THEN 0
    ELSE (IF Head(events).short_code = c THEN Head(events).delta ELSE 0)
         + SumDeltas(Tail(events), c)

\* urls.clicks of the row of a code (0 when there is no row).
OltpClicks(c) == ScalarOneOrNone(SelectByShortCode(urls, c)).clicks

\* The consumer runs, idles at the head of its loop, and has nothing left
\* to read or to flush.
Drained ==
    /\ ipc = "getmany"
    /\ kafka_position = Len(click_queue)
    /\ stream_group.last_delivered = Len(click_stream)
    /\ \A c \in Codes : ingestion_agg[c] = 0

\* Every redirect of c that returned was read by the consumer and flushed.
FlushedAll(c) ==
    /\ Drained
    /\ faults = 0
    /\ consumed[c] = RedirectsOf(c)
    /\ RedirectsOf(c) > 0

\* What a statistics request that starts now can count on: "buffered" when
\* no consumer has run and the buffer holds every click, "flushed" when the
\* consumer has read and flushed every click; nothing otherwise.
StatisticsCondition(c) ==
    IF \E u \in Tasks : task[u].pc # "idle" THEN ""
    ELSE IF ~stream_group.exists /\ BufferedClickCount(c) = RedirectsOf(c)
    THEN "buffered"
    ELSE IF FlushedAll(c) THEN "flushed"
    ELSE ""

\* GET /{short_code} (redirect_to_url), up to the first await of the lookup.
redirect_to_url(t, short_code) ==
    /\ task[t].pc = "idle"
    /\ producer # "unset"
    /\ requests < MaxRequests
    /\ requests' = requests + 1
    /\ task' = [task EXCEPT ![t] =
          [IdleTask EXCEPT !.pc = "lk_cache", !.op = "redirect",
                           !.seq = requests + 1, !.code = short_code]]
    /\ UNCHANGED <<otherThanApp, appStore, appBlock, responses, window_reads>>

\* get_url_statistics, up to the first await of the lookup.
get_url_statistics(t, short_code) ==
    /\ task[t].pc = "idle"
    /\ producer # "unset"
    /\ requests < MaxRequests
    /\ requests' = requests + 1
    /\ task' = [task EXCEPT ![t] =
          [IdleTask EXCEPT !.pc = "lk_cache", !.op = "stats",
                           !.seq = requests + 1, !.code = short_code,
                           !.n = RedirectsOf(short_code),
                           !.cond = StatisticsCondition(short_code)]]
    /\ UNCHANGED <<otherThanApp, appStore, appBlock, responses, window_reads>>

\* A request session that committed on its way out: the rows with the
\* session's changed object written back.
SessionCommit(rows, url) ==
    {IF r.short_code = url.short_code THEN url ELSE r : r \in rows}

\* get_db: the session of a request is closed without a commit, so what the
\* request changed on an object it loaded is discarded with the session.
SessionClose(rows, url) == rows

\* _get_buffered_click_count and the end of get_url_statistics: GET
\* click_buffer:<code> on the primary; a positive count is added to the
\* clicks of the URL object.  (A request that was to find every click in
\* the buffer and finds the key expired counts on nothing any more.)
get_buffered_click_count(t) ==
    /\ task[t].pc = "st_buffer"
    /\ LET rec == task[t]
           buffered_clicks == BufferedClickCount(rec.code)
           url == IF buffered_clicks > 0
                  THEN [rec.obj EXCEPT !.clicks = @ + buffered_clicks]
                  ELSE rec.obj
           cond == IF rec.cond = "buffered" /\ buffered_clicks # rec.n
                   THEN "" ELSE rec.cond
       IN  /\ Respond(t, [rec EXCEPT !.obj = url, !.cond = cond], "ok")
           /\ urls' = SessionClose(urls, url)
    /\ UNCHANGED <<otherThanApp, urls_next_id, url_cache, url_cache_replica,
                   url_lock, appBlock, requests, window_reads>>

\* URLShorteningService.track_url_click(url), called with a URL object.
track_url_click(t, short_code) ==
    /\ task[t].pc = "idle"
    /\ producer # "unset"
    /\ requests < MaxClicks
    /\ requests' = requests + 1
    /\ task' = [task EXCEPT ![t] =
          [IdleTask EXCEPT !.pc = "tr_incr", !.op = "track",
                           !.seq = requests + 1, !.code = short_code]]
    /\ UNCHANGED <<otherThanApp, appStore, appBlock, responses, window_reads>>

\* service.increment_clicks(url, db, cache), called with a URL object.
increment_clicks(t, short_code) ==
    /\ task[t].pc = "idle"
    /\ producer # "unset"
    /\ requests < MaxClicks
    /\ requests' = requests + 1
    /\ task' = [task EXCEPT ![t] =
          [IdleTask EXCEPT !.pc = "tr_incr", !.op = "increment_clicks",
                           !.seq = requests + 1, !.code = short_code]]
    /\ UNCHANGED <<otherThanApp, appStore, appBlock, responses, window_reads>>

\* track_url_click raising where it returns.
TrackReturnsRaising(t, rec) == Respond(t, rec, "error")

\* The click was tracked: the redirect answers 307, the call returns.
TrackReturns(t, rec) ==
    Respond(t, rec, IF rec.op = "redirect" THEN "redirected" ELSE "tracked")

\* An exception leaves track_url_click / increment_clicks (HTTP 500).
TrackRaises(t, rec) == Respond(t, rec, "error")

\* The call met a cache operation that failed.
Faulted(rec) == [rec EXCEPT !.fault = TRUE]

\* _increment_click_buffer: INCR click_buffer:<code>; the first increment
\* goes on to EXPIRE.  (increment_clicks does the same.)
increment_click_buffer(t, fail) ==
    /\ task[t].pc = "tr_incr"
    /\ fail => faults < MaxFaults
    /\ LET rec == task[t]
           buffered_count == BufferedClickCount(rec.code) + 1
       IN  IF fail
           THEN /\ faults' = faults + 1
                /\ TrackRaises(t, Faulted(rec))
                /\ UNCHANGED clickBuffer
           ELSE /\ click_buffer' = [click_buffer EXCEPT ![rec.code] = buffered_count]
                /\ click_buffer_ttl' = [click_buffer_ttl EXCEPT ![rec.code] =
                      IF @ = "absent" THEN "none" ELSE @]
                /\ task' = [task EXCEPT ![t] =
                      [rec EXCEPT !.pc = IF buffered_count = 1 THEN "tr_expire"
                                         ELSE "tr_publish"]]
                /\ UNCHANGED <<responses, faults>>
    /\ UNCHANGED <<otherThanClicks, urls, url_cache, requests, clickQueue,
                   click_stream, ingestVars>>

\* _increment_click_buffer: EXPIRE click_buffer:<code> CLICK_BUFFER_TTL_SECONDS.
expire_click_buffer(t, fail) ==
    /\ task[t].pc = "tr_expire"
    /\ fail => faults < MaxFaults
    /\ LET rec == task[t]
       IN  IF fail
           THEN /\ faults' = faults + 1
                /\ TrackRaises(t, Faulted(rec))
                /\ UNCHANGED clickBuffer
           ELSE /\ click_buffer_ttl' = [click_buffer_ttl EXCEPT ![rec.code] =
                      IF @ = "absent" THEN @ ELSE "ttl"]
                /\ task' = [task EXCEPT ![t] = [rec EXCEPT !.pc = "tr_publish"]]
                /\ UNCHANGED <<click_buffer, responses, faults>>
    /\ UNCHANGED <<otherThanClicks, urls, url_cache, requests, clickQueue,
                   click_stream, ingestVars>>

\* What app.kafka.publish_click_event does: False without a producer;
\* otherwise send_and_wait, which appends the record and returns, or raises
\* when the brokers do not answer.
PublishOutcome == IF producer = "None" THEN "false"
                  ELSE IF kafka_up THEN "true" ELSE "raises"

\* The publish step of a click.  _publish_click_event goes to the stream
\* fallback on False and on an exception; increment_clicks goes there on
\* False only, an exception of send_and_wait leaves it.
publish_click_event(t) ==
    /\ task[t].pc = "tr_publish"
    /\ LET rec == [task[t] EXCEPT !.publish = PublishOutcome]
       IN  CASE PublishOutcome = "true" ->
                  /\ click_queue' = Append(click_queue, ClickEvent(rec.code, 1))
                  /\ TrackReturns(t, [rec EXCEPT !.queued = 1])
             [] PublishOutcome = "raises" /\ rec.op = "increment_clicks" ->
                  /\ TrackRaises(t, rec)
                  /\ UNCHANGED click_queue
             [] OTHER ->
                  /\ task' = [task EXCEPT ![t] = [rec EXCEPT !.pc = "tr_xadd"]]
                  /\ UNCHANGED <<click_queue, responses>>
    /\ UNCHANGED <<otherThanClicks, urls, url_cache, requests, clickBuffer,
                   kafka_up, kafka_outages, producer, click_stream, faults,
                   ingestVars>>

\* _handle_kafka_failure: XADD click_stream {short_code, delta "1"}; an
\* exception of the XADD is logged and swallowed.  In increment_clicks the
\* XADD is not guarded.
handle_kafka_failure(t, fail) ==
    /\ task[t].pc = "tr_xadd"
    /\ fail => faults < MaxFaults
    /\ LET rec == task[t]
       IN  IF fail
           THEN /\ faults' = faults + 1
                /\ IF rec.op = "increment_clicks"
                   THEN TrackRaises(t, Faulted(rec))
                   ELSE TrackReturns(t, Faulted(rec))
                /\ UNCHANGED click_stream
           ELSE /\ click_stream' = Append(click_stream, ClickEvent(rec.code, 1))
                /\ TrackReturns(t, [rec EXCEPT !.streamed = 1])
                /\ UNCHANGED faults
    /\ UNCHANGED <<otherThanClicks, urls, url_cache, requests, clickBuffer,
                   clickQueue, ingestVars>>

\* The TTL of click_buffer:<code> runs out.
click_buffer_expires(c) ==
    /\ click_buffer_ttl[c] = "ttl"
    /\ click_buffer' = [click_buffer EXCEPT ![c] = 0]
    /\ click_buffer_ttl' = [click_buffer_ttl EXCEPT ![c] = "absent"]
    /\ UNCHANGED <<otherThanClicks, urls, url_cache, appTasks, clickQueue,
                   click_stream, faults, ingestVars>>

\* The brokers of the queue stop answering, or answer again.
kafka_reachability ==
    /\ kafka_up => kafka_outages < MaxKafkaOutages
    /\ kafka_up' = ~kafka_up
    /\ kafka_outages' = IF kafka_up THEN kafka_outages + 1 ELSE kafka_outages
    /\ UNCHANGED <<otherThanClicks, urls, url_cache, appTasks, clickBuffer,
                   producer, click_queue, click_stream, faults, ingestVars>>

(***************************************************************************)
(* The ingestion consumer (services/ingestion/worker.py): one process.     *)
(***************************************************************************)
NoGroup == [exists |-> FALSE, last_delivered |-> 0, pending |-> {},
            created_at |-> 0]

\* No flush committed yet.  Of the last flush whose OLTP update committed
\* the log keeps the deltas committed, what DECRBY took from each buffer,
\* the codes whose url:<code> entry it deleted, how it ended, and what the
\* aggregation hash held when it ended.
NoFlush == [state |-> "none",
            delta |-> [c \in Codes |-> 0],
            decremented |-> [c \in Codes |-> 0],
            deleted |-> {},
            hash |-> [c \in Codes |-> 0]]

\* No consumer process runs; nothing was read, aggregated or flushed.
IngestInit ==
    /\ ipc = "stopped"
    /\ stream_group = NoGroup
    /\ kafka_position = 0
    /\ ingestion_agg = [c \in Codes |-> 0]
    /\ clickhouse_rows = 0
    /\ kafka_batch = <<>>
    /\ messages = <<>>
    /\ fallback_batch = <<>>
    /\ aggregated = [c \in Codes |-> 0]
    /\ consumed = [c \in Codes |-> 0]
    /\ stream_aggregated = {}
    /\ flush_log = NoFlush

\* ClickAggregates.by_short_code of a batch (0: the code is not a key).
ClickAggregates(events) == [c \in Codes |-> SumDeltas(events, c)]

\* XGROUP CREATE ... id="$": the group starts after the entries there are.
GroupStartIdLast(stream) == Len(stream)

\* XGROUP CREATE ... id="0": the group starts before the first entry.
GroupStartId(stream) == 0

\* The locals of one iteration of the loop of run are dropped.
DropLocals ==
    /\ kafka_batch' = <<>>
    /\ messages' = <<>>
    /\ fallback_batch' = <<>>
    /\ aggregated' = [c \in Codes |-> 0]

\* An exception inside the loop of run: logged, sleep(1), next iteration.
IterationFails ==
    /\ faults' = faults + 1
    /\ ipc' = "getmany"
    /\ DropLocals
    /\ flush_log' = IF flush_log.state = "open"
                    THEN [flush_log EXCEPT !.state = "raised",
                                           !.hash = ingestion_agg]
                    ELSE flush_log

\* The end of an iteration: _flush_aggregates when the flush interval has
\* elapsed since last_flush, the next getmany otherwise.
LoopEnd(due) == IF due THEN "flush" ELSE "getmany"

\* run, up to consumer.start(): _ensure_fallback_group creates the group of
\* the stream (and the stream), BUSYGROUP is ignored; any other exception
\* ends the process, which is started again.  created_at records how long
\* the stream was when the group was created.
run(fail) ==
    /\ ipc = "stopped"
    /\ fail => faults < MaxFaults
    /\ IF fail
       THEN /\ faults' = faults + 1
            /\ UNCHANGED <<ipc, stream_group>>
       ELSE /\ ipc' = "start"
            /\ stream_group' =
                  IF stream_group.exists THEN stream_group
                  ELSE [exists |-> TRUE,
                        last_delivered |-> GroupStartId(click_stream),
                        pending |-> {},
                        created_at |-> Len(click_stream)]
            /\ UNCHANGED faults
    /\ UNCHANGED <<otherThanClicks, urls, url_cache, appTasks, clickBuffer,
                   clickQueue, click_stream, kafka_position, ingestion_agg,
                   clickhouse_rows, ingestLocal, consumed, stream_aggregated,
                   flush_log>>

\* consumer.start(): raises while the brokers do not answer, which ends the
\* process.  The group has no committed offset and auto_offset_reset is
\* left at the client's default (latest): the first fetch position is the
\* end of the topic.
consumer_start ==
    /\ ipc = "start"
    /\ IF kafka_up
       THEN /\ ipc' = "getmany"
            /\ kafka_position' = Len(click_queue)
       ELSE /\ ipc' = "stopped"
            /\ UNCHANGED kafka_position
    /\ UNCHANGED <<otherThanClicks, urls, url_cache, appTasks, clickVars,
                   stream_group, ingestion_agg, clickhouse_rows, ingestLocal,
                   consumed, stream_aggregated,
                   flush_log>>

\* min(a, b)
Min(a, b) == IF a < b THEN a ELSE b

\* consumer.getmany(max_records=INGESTION_BATCH_SIZE): the records after
\* the fetch position, none while the brokers do not answer.
getmany ==
    /\ ipc = "getmany"
    /\ LET last == IF kafka_up
                   THEN Min(Len(click_queue), kafka_position + INGESTION_BATCH_SIZE)
                   ELSE kafka_position
           records == SubSeq(click_queue, kafka_position + 1, last)
       IN  /\ kafka_position' = last
           /\ kafka_batch' = records
           /\ consumed' = [c \in Codes |-> consumed[c] + SumDeltas(records, c)]
           /\ ipc' = IF records # <<>> THEN "buffer_kafka" ELSE "xreadgroup"
    /\ UNCHANGED <<otherThanClicks, urls, url_cache, appTasks, clickVars,
                   stream_group, ingestion_agg, clickhouse_rows, messages,
                   fallback_batch, aggregated, stream_aggregated,
                   flush_log>>

\* The entries of the stream with the given IDs, in order.
StreamEvents(ids) == [i \in 1..Len(ids) |-> click_stream[ids[i]]]

\* The elements of a sequence.
Range(seq) == {seq[i] : i \in 1..Len(seq)}

\* _buffer_batch_to_redis: HINCRBY ingestion_agg:<consumer> <code> <delta>
\* for the codes of the batch read from the queue, or of fallback_batch.
buffer_batch_to_redis(fail, due) ==
    /\ ipc \in {"buffer_kafka", "buffer_fallback"}
    /\ fail => faults < MaxFaults
    /\ IF fail
       THEN /\ IterationFails
            /\ UNCHANGED <<ingestion_agg, stream_aggregated>>
       ELSE LET events == IF ipc = "buffer_kafka" THEN kafka_batch
                          ELSE StreamEvents(fallback_batch)
            IN  /\ ingestion_agg' = [c \in Codes |->
                      ingestion_agg[c] + ClickAggregates(events)[c]]
                /\ stream_aggregated' =
                      IF ipc = "buffer_kafka" THEN stream_aggregated
                      ELSE stream_aggregated \cup Range(fallback_batch)
                /\ ipc' = IF ipc = "buffer_kafka" THEN "xreadgroup"
                          ELSE LoopEnd(due)
                /\ kafka_batch' = <<>>
                /\ fallback_batch' = <<>>
                /\ UNCHANGED <<messages, aggregated, faults, flush_log>>
    /\ UNCHANGED <<otherThanClicks, urls, url_cache, appTasks, clickBuffer,
                   clickQueue, click_stream, stream_group, kafka_position,
                   clickhouse_rows, consumed>>

\* _process_redis_fallback_stream: XREADGROUP ... ">" COUNT BATCH_SIZE, the
\* entries never delivered to the group; they enter its pending list.
process_redis_fallback_stream(fail, due) ==
    /\ ipc = "xreadgroup"
    /\ fail => faults < MaxFaults
    /\ IF fail
       THEN /\ IterationFails
            /\ UNCHANGED <<stream_group, consumed>>
       ELSE LET first == stream_group.last_delivered + 1
                last == Min(Len(click_stream),
                            stream_group.last_delivered + INGESTION_BATCH_SIZE)
                ids == [i \in 1..(last - first + 1) |-> first + i - 1]
            IN  /\ stream_group' =
                      [stream_group EXCEPT !.last_delivered = last,
                                           !.pending = @ \cup Range(ids)]
                /\ consumed' = [c \in Codes |->
                      consumed[c] + SumDeltas(StreamEvents(ids), c)]
                /\ messages' = ids
                /\ ipc' = IF ids = <<>> THEN LoopEnd(due) ELSE "xack"
                /\ UNCHANGED <<kafka_batch, fallback_batch, aggregated, faults, flush_log>>
    /\ UNCHANGED <<otherThanClicks, urls, url_cache, appTasks, clickBuffer,
                   clickQueue, click_stream, kafka_position, ingestion_agg,
                   clickhouse_rows, stream_aggregated>>

\* _process_redis_fallback_stream, one turn of the loop over the messages:
\* the payload is validated and appended to fallback_batch, then XACK.
xack(fail) ==
    /\ ipc = "xack"
    /\ fail => faults < MaxFaults
    /\ IF fail
       THEN /\ IterationFails
            /\ UNCHANGED stream_group
       ELSE LET message_id == Head(messages)
            IN  /\ stream_group' =
                      [stream_group EXCEPT !.pending = @ \ {message_id}]
                /\ fallback_batch' = Append(fallback_batch, message_id)
                /\ messages' = Tail(messages)
                /\ ipc' = IF Tail(messages) = <<>> THEN "buffer_fallback"
                          ELSE "xack"
                /\ UNCHANGED <<kafka_batch, aggregated, faults, flush_log>>
    /\ UNCHANGED <<otherThanClicks, urls, url_cache, appTasks, clickBuffer,
                   clickQueue, click_stream, kafka_position, ingestion_agg,
                   clickhouse_rows, consumed, stream_aggregated>>

\* _flush_aggregates: HGETALL ingestion_agg:<consumer>; nothing to do when
\* the hash is empty, else the positive deltas go to _process_batch.
flush_aggregates(fail) ==
    /\ ipc = "flush"
    /\ fail => faults < MaxFaults
    /\ IF fail
       THEN IterationFails
       ELSE LET raw == ingestion_agg
            IN  /\ aggregated' = [c \in Codes |-> IF raw[c] > 0 THEN raw[c] ELSE 0]
                /\ ipc' = IF \A c \in Codes : raw[c] = 0 THEN "getmany"
                          ELSE "commit"
                /\ UNCHANGED <<kafka_batch, messages, fallback_batch, faults, flush_log>>
    /\ UNCHANGED <<otherThanClicks, urls, url_cache, appTasks, clickBuffer,
                   clickQueue, click_stream, stream_group, kafka_position,
                   ingestion_agg, clickhouse_rows, consumed, stream_aggregated>>

\* An UPDATE that takes the delta from the clicks of the row.
UpdateClicksMinus(r, delta) == [r EXCEPT !.clicks = @ - delta]

\* _process_batch: update(URL).values(clicks=URL.clicks + delta).
UpdateClicks(r, delta) == [r EXCEPT !.clicks = @ + delta]

\* _process_batch: UPDATE urls SET clicks = clicks + delta WHERE
\* short_code = <code> for every code, and the commit.
process_batch_commit(fail) ==
    /\ ipc = "commit"
    /\ fail => faults < MaxFaults
    /\ IF fail
       THEN /\ IterationFails
            /\ UNCHANGED urls
       ELSE /\ urls' = {UpdateClicks(r, aggregated[r.short_code]) : r \in urls}
            /\ ipc' = "decr"
            /\ flush_log' = [NoFlush EXCEPT !.state = "open",
                                            !.delta = aggregated]
            /\ UNCHANGED <<ingestLocal, faults>>
    /\ UNCHANGED <<otherThanClicks, url_cache, appTasks, clickBuffer,
                   clickQueue, click_stream, stream_group, kafka_position,
                   ingestion_agg, clickhouse_rows, consumed, stream_aggregated>>

\* DECRBY that takes nothing from the key.
DECRBYNothing(value, decrement) == value

\* DECRBY key decrement: the value the key is left with.
DECRBY(value, decrement) == value - decrement

\* _process_batch: the MULTI/EXEC pipeline, DECRBY click_buffer:<code>
\* <delta> and DEL url:<code> for every code.  DECRBY on an absent key
\* starts from 0 and leaves a key without TTL.
process_batch_pipeline(fail) ==
    /\ ipc = "decr"
    /\ fail => faults < MaxFaults
    /\ IF fail
       THEN /\ IterationFails
            /\ UNCHANGED <<clickBuffer, url_cache>>
       ELSE /\ click_buffer' = [c \in Codes |->
                  IF aggregated[c] > 0
                  THEN DECRBY(BufferedClickCount(c), aggregated[c])
                  ELSE click_buffer[c]]
            /\ click_buffer_ttl' = [c \in Codes |->
                  IF aggregated[c] > 0 /\ click_buffer_ttl[c] = "absent"
                  THEN "none" ELSE click_buffer_ttl[c]]
            /\ url_cache' = [c \in Codes |->
                  IF aggregated[c] > 0 THEN NoEntry ELSE url_cache[c]]
            /\ ipc' = "clickhouse"
            /\ flush_log' =
                  [flush_log EXCEPT
                     !.decremented = [c \in Codes |->
                        BufferedClickCount(c) - click_buffer'[c]],
                     !.deleted = {c \in Codes : /\ aggregated[c] > 0
                                                /\ url_cache'[c] = NoEntry}]
            /\ UNCHANGED <<ingestLocal, faults>>
    /\ UNCHANGED <<otherThanClicks, urls, appTasks, clickQueue, click_stream,
                   stream_group, kafka_position, ingestion_agg,
                   clickhouse_rows, consumed, stream_aggregated>>

\* _process_batch: one row per code is inserted into click_events.
process_batch_clickhouse(fail) ==
    /\ ipc = "clickhouse"
    /\ fail => faults < MaxFaults
    /\ IF fail
       THEN /\ IterationFails
            /\ UNCHANGED clickhouse_rows
       ELSE /\ clickhouse_rows' = clickhouse_rows
                  + Cardinality({c \in Codes : aggregated[c] > 0})
            /\ ipc' = "delete"
            /\ UNCHANGED <<ingestLocal, faults, flush_log>>
    /\ UNCHANGED <<otherThanClicks, urls, url_cache, appTasks, clickBuffer,
                   clickQueue, click_stream, stream_group, kafka_position,
                   ingestion_agg, consumed, stream_aggregated>>

\* _flush_aggregates: DEL ingestion_agg:<consumer>, the end of the flush.
flush_delete(fail) ==
    /\ ipc = "delete"
    /\ fail => faults < MaxFaults
    /\ IF fail
       THEN /\ IterationFails
            /\ UNCHANGED ingestion_agg
       ELSE /\ ingestion_agg' = [c \in Codes |-> 0]
            /\ ipc' = "getmany"
            /\ DropLocals
            /\ flush_log' = [flush_log EXCEPT !.state = "returned",
                                              !.hash = ingestion_agg']
            /\ UNCHANGED faults
    /\ UNCHANGED <<otherThanClicks, urls, url_cache, appTasks, clickBuffer,
                   clickQueue, click_stream, stream_group, kafka_position,
                   clickhouse_rows, consumed, stream_aggregated>>

(***************************************************************************)
(* The loop of run counted in distinct codes: the hash                     *)
(* ingestion_agg:<consumer> holds one field per short code, and what the   *)
(* loop does depends on how many there are, not on which.  A batch of      *)
(* getmany or of XREADGROUP holds at most INGESTION_BATCH_SIZE events, of  *)
(* which some carry codes that are not yet fields of the hash.             *)
(***************************************************************************)
BatchLengths == {0, 1, 250, INGESTION_BATCH_SIZE}   \* events in one batch
MaxFields == 3 * INGESTION_BATCH_SIZE               \* fields followed

AggLoopIdle == [pc |-> "getmany", hlen |-> 0, new_codes |-> 0]

\* consumer.getmany(max_records=INGESTION_BATCH_SIZE) returns a batch of
\* records events, new_codes of them with a code the hash does not hold.
run_getmany(records, new_codes) ==
    /\ agg_loop.pc = "getmany"
    /\ new_codes <= records
    /\ agg_loop.hlen + new_codes <= MaxFields
    /\ agg_loop' = [agg_loop EXCEPT
                      !.pc = IF records > 0 THEN "buffer" ELSE "fallback",
                      !.new_codes = new_codes]
    /\ UNCHANGED <<otherThanFlush, onDemandVars>>

\* if batch: _buffer_batch_to_redis, HINCRBY for every code of the batch.
\* A code that is no field yet becomes one.
run_buffer_batch_to_redis ==
    /\ agg_loop.pc = "buffer"
    /\ agg_loop' = [agg_loop EXCEPT !.pc = "fallback",
                                    !.hlen = @ + agg_loop.new_codes,
                                    !.new_codes = 0]
    /\ UNCHANGED <<otherThanFlush, onDemandVars>>

\* _process_redis_fallback_stream: up to INGESTION_BATCH_SIZE entries of
\* the stream are read and buffered the same way.
run_process_redis_fallback_stream(records, new_codes) ==
    /\ agg_loop.pc = "fallback"
    /\ new_codes <= records
    /\ agg_loop.hlen + new_codes <= MaxFields
    /\ agg_loop' = [agg_loop EXCEPT !.pc = "interval",
                                    !.hlen = @ + new_codes]
    /\ UNCHANGED <<otherThanFlush, onDemandVars>>

\* if now - last_flush >= INGESTION_FLUSH_INTERVAL_SECONDS:
\* _flush_aggregates, which ends with DEL of the hash.  Nothing else in
\* the loop calls _flush_aggregates.
run_flush_interval(due) ==
    /\ agg_loop.pc = "interval"
    /\ agg_loop' = [agg_loop EXCEPT !.pc = "getmany",
                                    !.hlen = IF due THEN 0 ELSE @]
    /\ UNCHANGED <<otherThanFlush, onDemandVars>>

AggLoopNext ==
    \/ \E records \in BatchLengths, new_codes \in BatchLengths :
          run_getmany(records, new_codes)
    \/ run_buffer_batch_to_redis
    \/ \E records \in BatchLengths, new_codes \in BatchLengths :
          run_process_redis_fallback_stream(records, new_codes)
    \/ \E due \in BOOLEAN : run_flush_interval(due)

(***************************************************************************)
(* _flush_click_buffer of app/service.py.                                  *)
(***************************************************************************)
FlushTasks == 1..2      \* concurrent calls of _flush_click_buffer

\* acquired: what SET ... NX returned; read / found / buffered_count: the
\* GET of the buffer key was done, found the key, and its value; wrote and
\* deleted: the call has committed an UPDATE, has deleted url:<code>.
NoFlushCall == [pc |-> "idle", short_code |-> "", acquired |-> FALSE,
                read |-> FALSE, found |-> FALSE, buffered_count |-> 0,
                wrote |-> FALSE, deleted |-> FALSE]

FlushInit ==
    /\ agg_loop = AggLoopIdle
    /\ click_flush_lock = [c \in Codes |-> FALSE]
    /\ flush_call = [t \in FlushTasks |-> NoFlushCall]

\* What _flush_click_buffer leaves alone.
otherThanOnDemand ==
    <<allocVars, keygenVars, appBlock, urls_next_id, url_lock,
      url_cache_replica, appTasks, clickQueue, click_stream, faults,
      ingestVars, warmerVars, breakerVars, tickVars, agg_loop,
      blockLogVars>>

\* _flush_click_buffer(short_code): SET lock:click_flush:<code> "1" EX 2 NX;
\* the call returns at once when the key is already set.
flush_click_buffer(t, short_code) ==
    /\ flush_call[t].pc = "idle"
    /\ LET acquired == ~click_flush_lock[short_code]
       IN  /\ click_flush_lock' =
                 [click_flush_lock EXCEPT ![short_code] = TRUE]
           /\ flush_call' = [flush_call EXCEPT ![t] =
                 [NoFlushCall EXCEPT !.pc = IF acquired THEN "get" ELSE "idle",
                                     !.short_code = short_code,
                                     !.acquired = acquired]]
    /\ UNCHANGED <<otherThanOnDemand, urls, url_cache, clickBuffer>>

\* A test that takes only an absent key for an empty buffer.
NothingBufferedIfAbsent(found, buffered_count) == ~found

\* if buffered is None: return; if buffered_count <= 0: return
NothingBuffered(found, buffered_count) == ~found \/ buffered_count <= 0

\* buffered = await cache.get(buffer_key), and the two tests.
flush_get_buffer(t) ==
    /\ flush_call[t].pc = "get"
    /\ LET c == flush_call[t].short_code
           found == click_buffer_ttl[c] # "absent"
           buffered_count == IF found THEN click_buffer[c] ELSE 0
       IN  flush_call' = [flush_call EXCEPT ![t] =
             [@ EXCEPT !.read = TRUE, !.found = found,
                       !.buffered_count = buffered_count,
                       !.pc = IF NothingBuffered(found, buffered_count)
                              THEN "finally" ELSE "update"]]
    /\ UNCHANGED <<otherThanOnDemand, urls, url_cache, clickBuffer,
                   click_flush_lock>>

\* update(URL).where(short_code == ...).values(clicks=URL.clicks +
\* buffered_count), and the commit.
flush_update_clicks(t) ==
    /\ flush_call[t].pc = "update"
    /\ urls' = {IF r.short_code = flush_call[t].short_code
                THEN UpdateClicks(r, flush_call[t].buffered_count)
                ELSE r : r \in urls}
    /\ flush_call' = [flush_call EXCEPT ![t] =
          [@ EXCEPT !.wrote = TRUE, !.pc = "delete_buffer"]]
    /\ UNCHANGED <<otherThanOnDemand, url_cache, clickBuffer,
                   click_flush_lock>>

\* await cache.delete(buffer_key)
flush_delete_buffer(t) ==
    /\ flush_call[t].pc = "delete_buffer"
    /\ click_buffer' = [click_buffer EXCEPT ![flush_call[t].short_code] = 0]
    /\ click_buffer_ttl' =
          [click_buffer_ttl EXCEPT ![flush_call[t].short_code] = "absent"]
    /\ flush_call' = [flush_call EXCEPT ![t] = [@ EXCEPT !.pc = "delete_url"]]
    /\ UNCHANGED <<otherThanOnDemand, urls, url_cache, click_flush_lock>>

\* await cache.delete(f"url:{short_code}")
flush_delete_url(t) ==
    /\ flush_call[t].pc = "delete_url"
    /\ url_cache' = [url_cache EXCEPT ![flush_call[t].short_code] = NoEntry]
    /\ flush_call' = [flush_call EXCEPT ![t] =
          [@ EXCEPT !.deleted = TRUE, !.pc = "finally"]]
    /\ UNCHANGED <<otherThanOnDemand, urls, clickBuffer, click_flush_lock>>

\* finally: await cache.delete(lock_key)
flush_finally(t) ==
    /\ flush_call[t].pc = "finally"
    /\ click_flush_lock' =
          [click_flush_lock EXCEPT ![flush_call[t].short_code] = FALSE]
    /\ flush_call' = [flush_call EXCEPT ![t] = [@ EXCEPT !.pc = "idle"]]
    /\ UNCHANGED <<otherThanOnDemand, urls, url_cache, clickBuffer>>

\* The EX 2 of the lock key runs out.
click_flush_lock_expires(c) ==
    /\ click_flush_lock[c]
    /\ click_flush_lock' = [click_flush_lock EXCEPT ![c] = FALSE]
    /\ UNCHANGED <<otherThanOnDemand, urls, url_cache, clickBuffer,
                   flush_call>>

(***************************************************************************)
(* The cache warmer (services/cache_warmer_py/worker.py).                  *)
(***************************************************************************)
\* The warmer between two rounds.
WarmerInit ==
    /\ warmer_pc = "idle"
    /\ hottest = {}

\* _warm_hottest_urls, first await: SELECT ... ORDER BY clicks DESC LIMIT
\* CACHE_WARMER_TOP_N * 5, which is every row of a table of the model's size.
warm_hottest_urls_select ==
    /\ warmer_pc = "idle"
    /\ hottest' = urls
    /\ warmer_pc' = "set"
    /\ UNCHANGED <<allocVars, keygenVars, appVars, clickVars, ingestVars,
                   breakerVars, tickVars, flushVars, blockLogVars>>

\* The entry a warmer's pipeline leaves under url:<code>: the payload of the
\* row it selected, or what the key held when it selected no row of the code.
WarmedEntry(rows, c, entry) ==
    IF \E u \in rows : u.short_code = c
    THEN CachedURLPayload(CHOOSE u \in rows : u.short_code = c)
    ELSE entry

\* _warm_hottest_urls, second await: the pipeline of SET url:<code> <payload>
\* EX 3600 on the primary, one for each selected row.
warm_hottest_urls_set ==
    /\ warmer_pc = "set"
    /\ url_cache' = [c \in Codes |-> WarmedEntry(hottest, c, url_cache[c])]
    /\ hottest' = {}
    /\ warmer_pc' = "idle"
    /\ UNCHANGED <<allocVars, keygenVars, urls, urls_next_id, url_cache_replica,
                   url_lock, appBlock, appTasks, clickVars, ingestVars,
                   breakerVars, tickVars, flushVars, blockLogVars>>

(***************************************************************************)
(* The cache client and its circuit breaker                                *)
(* (services/redis/redis_sentinel_service.py), after initialize() on a     *)
(* direct connection: master_client is set and is the one replica client.  *)
(***************************************************************************)
max_failures == 5            \* self.max_failures
OPEN_SECONDS == 60           \* circuit_open_until = time.time() + 60
TickSeconds == 30            \* what the clock advances by in one step
MaxClock == 210              \* the clock stops there
MaxOperations == 12          \* calls of get_client / execute_with_retry

Roles == {"master", "replica"}

\* No failed call yet, or none since the last successful one.
NoFailedOperations == [n |-> 0, fifth_at |-> 0]

BreakerInit ==
    /\ sentinel_up = TRUE
    /\ clock = TickSeconds
    /\ circuit_open = FALSE
    /\ circuit_open_until = 0
    /\ consecutive_failures = 0
    /\ operations = 0
    /\ failed_operations = NoFailedOperations

\* The three fields of the breaker as one value.
Breaker == [open |-> circuit_open, until |-> circuit_open_until,
            failures |-> consecutive_failures]

SetBreaker(b) ==
    /\ circuit_open' = b.open
    /\ circuit_open_until' = b.until
    /\ consecutive_failures' = b.failures

\* _record_success: a count above 0 is reset and the flag cleared.
record_success(b) ==
    IF b.failures > 0 THEN [b EXCEPT !.failures = 0, !.open = FALSE] ELSE b

\* _record_failure: the count goes up; at max_failures or more, with the
\* flag not yet set, the flag is set and the period starts.
record_failure(b) ==
    LET failures == b.failures + 1
    IN  IF failures >= max_failures /\ ~b.open
        THEN [open |-> TRUE, until |-> clock + OPEN_SECONDS, failures |-> failures]
        ELSE [b EXCEPT !.failures = failures]

\* get_client: "if self.circuit_open and time.time() < self.circuit_open_until".
CircuitBreakerIsOpen(b) == b.open /\ clock < b.until

\* _ensure_master_connection with master_client set: PING, and on an
\* exception _record_failure before it is raised again.
ensure_master_connection(b) ==
    IF sentinel_up THEN [raised |-> FALSE, b |-> b]
    ELSE [raised |-> TRUE, b |-> record_failure(b)]

\* get_client(role): raises at once while the breaker is open; for the
\* master the connection is ensured and an exception recorded once more;
\* a replica client is handed out as it is.
GetClient(b, role) ==
    IF CircuitBreakerIsOpen(b) THEN [raised |-> TRUE, b |-> b]
    ELSE IF role = "master"
    THEN LET e == ensure_master_connection(b)
         IN  IF e.raised THEN [raised |-> TRUE, b |-> record_failure(e.b)]
             ELSE e
    ELSE [raised |-> FALSE, b |-> b]

\* The first try of execute_with_retry: get_client, then the command.
FirstTry(b, role) ==
    LET c == GetClient(b, role)
    IN  IF c.raised \/ ~sentinel_up THEN [raised |-> TRUE, b |-> c.b]
        ELSE [raised |-> FALSE, b |-> record_success(c.b)]

\* execute_with_retry(command, role): on an exception of the first try a
\* call for the master ensures the connection and tries once more; what
\* still fails is recorded and raised.
ExecuteWithRetry(b, role) ==
    LET first == FirstTry(b, role)
    IN  IF ~first.raised THEN first
        ELSE IF role = "master"
        THEN LET e == ensure_master_connection(first.b)
                 second == IF e.raised THEN e ELSE FirstTry(e.b, role)
             IN  IF second.raised
                 THEN [raised |-> TRUE, b |-> record_failure(second.b)]
                 ELSE second
        ELSE [raised |-> TRUE, b |-> record_failure(first.b)]

\* The calls that failed in a row, after one more call: a successful call
\* ends the row, a failed one is counted unless it was refused within the
\* OPEN_SECONDS after the 5th, and the count starts again after them.
FailedOperations(f, raised) ==
    LET within == f.n >= max_failures /\ clock < f.fifth_at + OPEN_SECONDS
        n == IF f.n >= max_failures THEN 1 ELSE f.n + 1
    IN  IF ~raised THEN NoFailedOperations
        ELSE IF within THEN f
        ELSE [n |-> n, fifth_at |-> IF n = max_failures THEN clock ELSE 0]

\* What a call leaves: the breaker, the count of calls, the failed calls.
Returns(result) ==
    /\ operations' = operations + 1
    /\ SetBreaker(result.b)
    /\ failed_operations' = FailedOperations(failed_operations, result.raised)

get_client(role) ==
    /\ operations < MaxOperations
    /\ Returns(GetClient(Breaker, role))
    /\ UNCHANGED <<allocVars, keygenVars, appVars, clickVars, ingestVars,
                   warmerVars, tickVars, flushVars, blockLogVars, sentinel_up, clock>>

execute_with_retry(role) ==
    /\ operations < MaxOperations
    /\ Returns(ExecuteWithRetry(Breaker, role))
    /\ UNCHANGED <<allocVars, keygenVars, appVars, clickVars, ingestVars,
                   warmerVars, tickVars, flushVars, blockLogVars, sentinel_up, clock>>

\* The cache server becomes unreachable or reachable again.
sentinel_reachability ==
    /\ sentinel_up' = ~sentinel_up
    /\ UNCHANGED <<allocVars, keygenVars, appVars, clickVars, ingestVars,
                   warmerVars, tickVars, flushVars, blockLogVars, clock, breaker, operations,
                   failed_operations>>

\* Time passes.
clock_advances ==
    /\ clock < MaxClock
    /\ clock' = clock + TickSeconds
    /\ UNCHANGED <<allocVars, keygenVars, appVars, clickVars, ingestVars,
                   warmerVars, tickVars, flushVars, blockLogVars, sentinel_up, breaker, operations,
                   failed_operations>>

BreakerNext ==
    \/ \E role \in Roles : get_client(role)
    \/ \E role \in Roles : execute_with_retry(role)
    \/ sentinel_reachability
    \/ clock_advances

(***************************************************************************)
(* The specifications of the click pipeline.                               *)
(***************************************************************************)
\* The URL the click requests are about.
ClickedUrl == [id |-> 1, short_code |-> "abc",
               original_url |-> "https://a.example", clicks |-> 0]

\* The app's stores after POST /shorten {url, custom_code "abc"} was served
\* and its cache entry replicated; no request of the model was served yet.
AppCreated ==
    /\ urls = {ClickedUrl}
    /\ urls_next_id = 2
    /\ url_cache = [c \in Codes |->
          IF c = ClickedUrl.short_code THEN CachedURLPayload(ClickedUrl)
          ELSE NoEntry]
    /\ url_cache_replica = [c \in Codes |->
          IF c = ClickedUrl.short_code THEN CachedURLPayload(ClickedUrl)
          ELSE NoEntry]
    /\ url_lock = [c \in Codes |-> Unlocked]
    /\ id_allocation_next = 0
    /\ id_allocation_end = -1
    /\ keygen_service_key = 0
    /\ id_allocator_python = 0
    /\ task = [t \in Tasks |-> IdleTask]
    /\ requests = 0
    /\ responses = {}
    /\ window_reads = [c \in Codes |-> 0]

ClicksInit ==
    /\ AllocInit /\ KeygenInit /\ AppCreated /\ ClickInit /\ IngestInit
    /\ WarmerInit /\ BreakerInit /\ TickInit /\ FlushInit /\ BlockLogInit

\* track_url_click and increment_clicks called with a URL object, cache
\* operations that may fail, the queue that may be unreachable.
TrackNext ==
    \/ init_kafka
    \/ \E t \in Tasks :
         \/ \E c \in ClickCodes : track_url_click(t, c)
         \/ \E c \in ClickCodes : increment_clicks(t, c)
         \/ \E fail \in BOOLEAN : increment_click_buffer(t, fail)
         \/ \E fail \in BOOLEAN : expire_click_buffer(t, fail)
         \/ publish_click_event(t)
         \/ \E fail \in BOOLEAN : handle_kafka_failure(t, fail)
    \/ \E c \in Codes : click_buffer_expires(c)
    \/ kafka_reachability

\* Redirects and statistics served by the app while the consumer runs; no
\* operation fails and the queue is reachable throughout.
ClicksNext ==
    \/ init_kafka
    \/ \E t \in ClickTasks :
         \/ \E c \in ClickCodes : redirect_to_url(t, c)
         \/ \E c \in ClickCodes : get_url_statistics(t, c)
         \/ lookup_from_cache(t)
         \/ url_acquire_distributed_lock(t)
         \/ lookup_from_database(t)
         \/ cache_url_object(t)
         \/ url_release_distributed_lock(t)
         \/ increment_click_buffer(t, FALSE)
         \/ expire_click_buffer(t, FALSE)
         \/ publish_click_event(t)
         \/ get_buffered_click_count(t)
    \/ \E c \in Codes :
         \/ url_cache_expires(c)
         \/ url_lock_expires(c)
         \/ url_cache_replicates(c)
         \/ click_buffer_expires(c)
    \/ run(FALSE)
    \/ consumer_start
    \/ getmany
    \/ \E due \in BOOLEAN : buffer_batch_to_redis(FALSE, due)
    \/ \E due \in BOOLEAN : process_redis_fallback_stream(FALSE, due)
    \/ flush_aggregates(FALSE)
    \/ process_batch_commit(FALSE)
    \/ process_batch_pipeline(FALSE)
    \/ process_batch_clickhouse(FALSE)
    \/ flush_delete(FALSE)

\* Clicks tracked by the app and ingested by the consumer, whose steps and
\* the app's cache operations may fail.
IngestNext ==
    \/ init_kafka
    \/ \E t \in Tasks :
         \/ \E c \in ClickCodes : track_url_click(t, c)
         \/ \E fail \in BOOLEAN : increment_click_buffer(t, fail)
         \/ \E fail \in BOOLEAN : expire_click_buffer(t, fail)
         \/ publish_click_event(t)
         \/ \E fail \in BOOLEAN : handle_kafka_failure(t, fail)
    \/ \E c \in Codes : click_buffer_expires(c)
    \/ kafka_reachability
    \/ \E fail \in BOOLEAN : run(fail)
    \/ consumer_start
    \/ getmany
    \/ \E fail, due \in BOOLEAN : buffer_batch_to_redis(fail, due)
    \/ \E fail, due \in BOOLEAN : process_redis_fallback_stream(fail, due)
    \/ \E fail \in BOOLEAN : xack(fail)
    \/ \E fail \in BOOLEAN : flush_aggregates(fail)
    \/ \E fail \in BOOLEAN : process_batch_commit(fail)
    \/ \E fail \in BOOLEAN : process_batch_pipeline(fail)
    \/ \E fail \in BOOLEAN : process_batch_clickhouse(fail)
    \/ \E fail \in BOOLEAN : flush_delete(fail)

\* Clicks tracked by the app and ingested by a consumer process that starts
\* once and never ends: the queue always answers, and the steps of the
\* consumer's loop may fail, which the loop logs before its next iteration.
FlushRetryNext ==
    \/ init_kafka
    \/ \E t \in Tasks :
         \/ \E c \in ClickCodes : track_url_click(t, c)
         \/ increment_click_buffer(t, FALSE)
         \/ expire_click_buffer(t, FALSE)
         \/ publish_click_event(t)
    \/ run(FALSE)
    \/ consumer_start
    \/ getmany
    \/ \E fail, due \in BOOLEAN : buffer_batch_to_redis(fail, due)
    \/ \E fail, due \in BOOLEAN : process_redis_fallback_stream(fail, due)
    \/ \E fail \in BOOLEAN : flush_aggregates(fail)
    \/ \E fail \in BOOLEAN : process_batch_commit(fail)
    \/ \E fail \in BOOLEAN : process_batch_pipeline(fail)
    \/ \E fail \in BOOLEAN : process_batch_clickhouse(fail)
    \/ \E fail \in BOOLEAN : flush_delete(fail)

\* Clicks tracked by the app, flushed on the interval by the consumer and
\* on demand by calls of _flush_click_buffer; no operation fails.
FlushNext ==
    \/ init_kafka
    \/ \E t \in ClickTasks :
         \/ \E c \in ClickCodes : track_url_click(t, c)
         \/ increment_click_buffer(t, FALSE)
         \/ expire_click_buffer(t, FALSE)
         \/ publish_click_event(t)
    \/ \E t \in FlushTasks :
         \/ \E c \in ClickCodes : flush_click_buffer(t, c)
         \/ flush_get_buffer(t)
         \/ flush_update_clicks(t)
         \/ flush_delete_buffer(t)
         \/ flush_delete_url(t)
         \/ flush_finally(t)
    \/ \E c \in ClickCodes : click_flush_lock_expires(c)
    \/ run(FALSE)
    \/ consumer_start
    \/ getmany
    \/ \E due \in BOOLEAN : buffer_batch_to_redis(FALSE, due)
    \/ \E due \in BOOLEAN : process_redis_fallback_stream(FALSE, due)
    \/ flush_aggregates(FALSE)
    \/ process_batch_commit(FALSE)
    \/ process_batch_pipeline(FALSE)
    \/ process_batch_clickhouse(FALSE)
    \/ flush_delete(FALSE)

\* One code clicked, looked up, flushed by the consumer and warmed by the
\* cache warmer; no operation fails.
CacheNext ==
    \/ init_kafka
    \/ \E t \in ClickTasks :
         \/ \E c \in ClickCodes : track_url_click(t, c)
         \/ increment_click_buffer(t, FALSE)
         \/ expire_click_buffer(t, FALSE)
         \/ publish_click_event(t)
         \/ \E c \in ClickCodes : lookup_url_by_code(t, c)
         \/ lookup_from_cache(t)
         \/ url_acquire_distributed_lock(t)
         \/ lookup_from_database(t)
         \/ cache_url_object(t)
         \/ url_release_distributed_lock(t)
    \/ \E c \in ClickCodes : url_cache_replicates(c)
    \/ warm_hottest_urls_select
    \/ warm_hottest_urls_set
    \/ run(FALSE)
    \/ consumer_start
    \/ getmany
    \/ \E due \in BOOLEAN : buffer_batch_to_redis(FALSE, due)
    \/ \E due \in BOOLEAN : process_redis_fallback_stream(FALSE, due)
    \/ flush_aggregates(FALSE)
    \/ process_batch_commit(FALSE)
    \/ process_batch_pipeline(FALSE)
    \/ process_batch_clickhouse(FALSE)
    \/ flush_delete(FALSE)

\* Every path that holds a session on the OLTP store, served by one request
\* task while the consumer and the warmer run: create with a custom code,
\* lookup, redirect with its click tracking, statistics; no operation fails.
OltpNext ==
    \/ init_kafka
    \/ \E t \in ClickTasks :
         \/ \E url \in OriginalUrls, custom \in CustomCodes :
               create_short_url(t, url, custom)
         \/ generate_or_validate_short_code(t)
         \/ store_url_in_database(t)
         \/ \E c \in ClickCodes : lookup_url_by_code(t, c)
         \/ \E c \in ClickCodes : redirect_to_url(t, c)
         \/ \E c \in ClickCodes : get_url_statistics(t, c)
         \/ lookup_from_cache(t)
         \/ url_acquire_distributed_lock(t)
         \/ lookup_from_database(t)
         \/ cache_url_object(t)
         \/ url_release_distributed_lock(t)
         \/ increment_click_buffer(t, FALSE)
         \/ expire_click_buffer(t, FALSE)
         \/ publish_click_event(t)
         \/ get_buffered_click_count(t)
    \/ \E c \in CustomCodes : url_cache_replicates(c)
    \/ warm_hottest_urls_select
    \/ warm_hottest_urls_set
    \/ run(FALSE)
    \/ consumer_start
    \/ getmany
    \/ \E due \in BOOLEAN : buffer_batch_to_redis(FALSE, due)
    \/ \E due \in BOOLEAN : process_redis_fallback_stream(FALSE, due)
    \/ flush_aggregates(FALSE)
    \/ process_batch_commit(FALSE)
    \/ process_batch_pipeline(FALSE)
    \/ process_batch_clickhouse(FALSE)
    \/ flush_delete(FALSE)

\* The codes redirects and lookups ask for: the code of ClickedUrl and a
\* code no record has.
RedirectCodes == CustomCodes

\* Redirects and lookups served by the app, for a code that has a record
\* and for one that has none; cache operations of the click tracking may
\* fail and the queue may be unreachable.  No consumer runs.
RedirectNext ==
    \/ init_kafka
    \/ \E t \in ClickTasks :
         \/ \E c \in RedirectCodes : redirect_to_url(t, c)
         \/ \E c \in RedirectCodes : lookup_url_by_code(t, c)
         \/ lookup_from_cache(t)
         \/ url_acquire_distributed_lock(t)
         \/ lookup_from_database(t)
         \/ cache_url_object(t)
         \/ url_release_distributed_lock(t)
         \/ \E fail \in BOOLEAN : increment_click_buffer(t, fail)
         \/ \E fail \in BOOLEAN : expire_click_buffer(t, fail)
         \/ publish_click_event(t)
         \/ \E fail \in BOOLEAN : handle_kafka_failure(t, fail)
    \/ \E c \in Codes :
         \/ url_cache_expires(c)
         \/ url_lock_expires(c)
         \/ url_cache_replicates(c)
         \/ click_buffer_expires(c)
    \/ kafka_reachability

\* The steps of the consumer process when no operation fails.
ConsumerStep ==
    \/ run(FALSE)
    \/ consumer_start
    \/ getmany
    \/ \E due \in BOOLEAN : buffer_batch_to_redis(FALSE, due)
    \/ \E due \in BOOLEAN : process_redis_fallback_stream(FALSE, due)
    \/ xack(FALSE)
    \/ flush_aggregates(FALSE)
    \/ process_batch_commit(FALSE)
    \/ process_batch_pipeline(FALSE)
    \/ process_batch_clickhouse(FALSE)
    \/ flush_delete(FALSE)

\* The brokers answer again.
kafka_recovers == ~kafka_up /\ kafka_reachability

\* Clicks tracked by the app and ingested by the consumer; no operation
\* fails.
StreamNext ==
    \/ init_kafka
    \/ \E t \in Tasks :
         \/ \E c \in ClickCodes : track_url_click(t, c)
         \/ increment_click_buffer(t, FALSE)
         \/ expire_click_buffer(t, FALSE)
         \/ publish_click_event(t)
         \/ handle_kafka_failure(t, FALSE)
    \/ \E c \in Codes : click_buffer_expires(c)
    \/ kafka_reachability
    \/ run(FALSE)
    \/ consumer_start
    \/ getmany
    \/ \E due \in BOOLEAN : buffer_batch_to_redis(FALSE, due)
    \/ \E due \in BOOLEAN : process_redis_fallback_stream(FALSE, due)
    \/ xack(FALSE)
    \/ flush_aggregates(FALSE)
    \/ process_batch_commit(FALSE)
    \/ process_batch_pipeline(FALSE)
    \/ process_batch_clickhouse(FALSE)
    \/ flush_delete(FALSE)

Init ==
    /\ AllocInit /\ KeygenInit /\ AppInit /\ ClickInit /\ IngestInit
    /\ WarmerInit /\ BreakerInit /\ TickInit /\ FlushInit /\ BlockLogInit

SpecAlloc == Init /\ [][AllocNext]_vars

SpecAllocCancel == Init /\ [][AllocCancelNext]_vars
SpecAllocRestore == Init /\ [][AllocRestoreNext]_vars
SpecAllocSizes == Init /\ [][AllocSizesNext]_vars
SpecKeygen == Init /\ [][KeygenNext]_vars

SpecUrl == Init /\ [][UrlNext]_vars

SpecShorten == Init /\ [][ShortenNext]_vars

SpecEncode == Init /\ [][EncodeNext]_vars

SpecTrack == Init /\ [][TrackNext]_vars

SpecClicks == ClicksInit /\ [][ClicksNext]_vars

SpecRedirect == ClicksInit /\ [][RedirectNext]_vars

SpecIngest == ClicksInit /\ [][IngestNext]_vars

\* The consumer process keeps running (and is started again when it ends),
\* and an outage of the queue ends.
SpecFlushRetry == ClicksInit /\ [][FlushRetryNext]_vars

SpecCache == ClicksInit /\ [][CacheNext]_vars

SpecOltp == ClicksInit /\ [][OltpNext]_vars

SpecBreaker == Init /\ [][BreakerNext]_vars

SpecBlocks == Init /\ [][BlocksNext]_vars

SpecFlush == ClicksInit /\ [][FlushNext]_vars

SpecAggLoop == Init /\ [][AggLoopNext]_vars

SpecAllocShutdown == Init /\ [][AllocShutdownNext]_vars

SpecSyncTick == Init /\ [][SyncTickNext]_vars

\* _background_sync_worker calls _process_pending_syncs every second until
\* shutdown, and an outage of the OLTP store ends.
SpecAllocSync ==
    /\ Init
    /\ [][AllocSyncNext]_vars
    /\ \A i \in Allocators : WF_vars(process_pending_syncs(i))
    /\ WF_vars(pg_recovers)

SpecStream ==
    /\ ClicksInit
    /\ [][StreamNext]_vars
    /\ WF_vars(ConsumerStep)
    /\ WF_vars(kafka_recovers)

\* C1: on the cache-counter path every two successful calls return
\* disjoint ranges.
C1_PrimaryRangesDisjoint ==
    \A r1, r2 \in granted :
        (r1 # r2 /\ r1.source = "redis_sentinel" /\ r2.source = "redis_sentinel")
            => ~Overlap(r1, r2)

\* C5: a range returned by the OLTP-sequence fallback overlaps no other
\* returned range, be it of the cache path or of the fallback.
C5_FallbackRangesDisjoint ==
    \A r1, r2 \in granted :
        (r1 # r2 /\ r1.source = "postgresql") => ~Overlap(r1, r2)

\* C6: every two ranges the keygen service returned are disjoint, whichever
\* backend served them.
C6_KeygenRangesDisjoint ==
    \A r1, r2 \in keygen_granted :
        r1 # r2 => (r1.end < r2.start \/ r2.end < r1.start)

\* The requests that have inserted the row of a short code.
InsertedBy(short_code) ==
    {r.seq : r \in {x \in responses : x.op = "create" /\ x.status = "created"
                                      /\ x.code = short_code}}
    \cup {task[t].seq : t \in {x \in Tasks : task[x].pc = "cr_cache"
                                             /\ task[x].code = short_code}}

C4_LookupAfterCreate ==
    \A r \in responses :
        (r.op = "lookup" /\ r.expect # "")
            => /\ r.status = "ok"
               /\ r.obj.original_url = r.expect
               /\ r.obj.short_code = r.code

\* After a create, one lookup of its code was served from the cache and
\* another, the cache entry being absent, from OLTP.
C4_Witness ==
    \E r1, r2 \in responses :
        /\ r1.op = "lookup" /\ r1.expect # "" /\ r1.via = "cache"
        /\ r2.op = "lookup" /\ r2.expect # "" /\ r2.via = "oltp"
        /\ r1.status = "ok" /\ r2.status = "ok"

\* C7: between two settings of lock:url:<code> at most one lookup reads the
\* code from OLTP, and a lookup that did not set the lock is answered from
\* the cache.
C7_SingleFlight ==
    /\ \A c \in Codes : window_reads[c] <= 1
    /\ \A r \in responses : (r.op = "lookup" /\ r.via = "oltp") => r.lock

\* C3: after n redirects of a code that all returned, statistics reports
\* n clicks both while no consumer has run and every click is in the
\* buffer, and after the consumer has read and flushed every click without
\* a failure; in the latter state the OLTP clicks of the code are n and
\* click_buffer:<code> is 0 or absent.
C3_StatisticsCountEveryClick ==
    /\ \A r \in responses :
         (r.op = "stats" /\ r.cond # "" /\ r.ended = r.seq)
             => (r.status = "ok" /\ r.obj.clicks = r.n)
    /\ \A c \in ClickCodes :
         (FlushedAll(c) /\ \A t \in Tasks : task[t].pc = "idle")
             => (OltpClicks(c) = RedirectsOf(c) /\ BufferedClickCount(c) = 0)

\* C8: when the steps of the consumer may fail and be retried, every click
\* event the consumer has read from the queue or from the fallback stream
\* has been added to the OLTP clicks of its code at least once by the time
\* the consumer has nothing left to read or to flush.
C8_AtLeastOnce ==
    (Drained /\ \A t \in Tasks : task[t].pc = "idle")
        => \A c \in ClickCodes : OltpClicks(c) >= consumed[c]

\* An entry of the stream was read, acknowledged, and its delta added to
\* the aggregation hash.
StreamEntryProcessed(i) ==
    /\ i <= stream_group.last_delivered
    /\ i \notin stream_group.pending
    /\ i \in stream_aggregated

C10_ExactlyOneEvent ==
    \A r \in responses :
        (r.op \in {"track", "increment_clicks", "redirect"}
           /\ r.at \in {"tr_publish", "tr_xadd"} /\ ~r.fault)
            => /\ r.queued + r.streamed = 1
               /\ r.queued = 1 <=> r.publish = "true"

\* A redirect or track_url_click whose publish did not reach the queue
\* and whose XADD to the fallback stream failed.
BothPublishPathsFailed(r) ==
    /\ r.op \in {"redirect", "track"}
    /\ r.at = "tr_xadd" /\ r.fault
    /\ r.publish \in {"false", "raises"}
    /\ r.queued = 0 /\ r.streamed = 0

\* C11: when the publish to the queue fails and the append to the fallback
\* stream fails too, track_url_click returns normally, the redirect
\* answers 307, and the step leaves click_buffer:<code> with the increment
\* the call made.
C11_BothFailStillRedirects ==
    [][\A t \in Tasks :
          (/\ task[t].pc = "tr_xadd"
           /\ task[t].op \in {"redirect", "track"}
           /\ task'[t].pc = "idle"
           /\ click_stream' = click_stream)
              => /\ click_buffer' = click_buffer
                 /\ click_buffer_ttl' = click_buffer_ttl
                 /\ click_queue' = click_queue
                 /\ \E r \in responses' \ responses :
                      /\ r.task = t /\ BothPublishPathsFailed(r)
                      /\ r.status = IF r.op = "redirect" THEN "redirected"
                                    ELSE "tracked"]_vars

\* A redirect answered 307 although the queue raised and the XADD failed,
\* and the buffer of the code still counts the click.
C11_Witness ==
    \E r \in responses :
        /\ BothPublishPathsFailed(r) /\ r.op = "redirect"
        /\ r.publish = "raises" /\ r.status = "redirected"
        /\ BufferedClickCount(r.code) >= 1

\* The flush the log is about did what a flush does after its commit:
\* every code it updated in OLTP by a delta had click_buffer:<code>
\* decremented by that delta and url:<code> deleted, and the aggregation
\* hash held nothing of the code when the flush ended.
FlushSettled ==
    \A c \in Codes :
        flush_log.delta[c] > 0
            => /\ flush_log.decremented[c] = flush_log.delta[c]
               /\ c \in flush_log.deleted
               /\ flush_log.hash[c] = 0

NoRecord(short_code) == SelectByShortCode(urls, short_code) = {}

\* C13: the lookup of a code no record has returns none and writes no
\* url:<code> entry; a redirect of such a code answers NotFound, and
\* neither increments a click buffer nor publishes to the queue nor
\* appends to the fallback stream.
C13_UnknownCodeLeavesNoTrace ==
    /\ \A r \in responses :
         (r.op \in {"lookup", "redirect"} /\ NoRecord(r.code))
             => /\ r.status = "not_found" /\ r.obj = NoUrl
                /\ r.queued = 0 /\ r.streamed = 0
    /\ \A t \in Tasks :
         (task[t].op \in {"lookup", "redirect"} /\ NoRecord(task[t].code))
             => task[t].pc \notin {"lk_setex", "tr_incr", "tr_expire",
                                   "tr_publish", "tr_xadd"}
    /\ \A c \in Codes :
         NoRecord(c)
             => /\ url_cache[c] = NoEntry
                /\ click_buffer_ttl[c] = "absent" /\ BufferedClickCount(c) = 0
                /\ \A i \in 1..Len(click_queue) : click_queue[i].short_code # c
                /\ \A i \in 1..Len(click_stream) : click_stream[i].short_code # c

\* A lookup and a redirect of a code no record has were answered after the
\* OLTP read, while a redirect of the code that has a record was tracked.
C13_Witness ==
    /\ \E r \in responses :
         /\ r.op = "lookup" /\ NoRecord(r.code)
         /\ r.via = "oltp" /\ r.status = "not_found"
    /\ \E r \in responses :
         /\ r.op = "redirect" /\ NoRecord(r.code)
         /\ r.via = "oltp" /\ r.status = "not_found"
    /\ \E r \in responses : r.op = "redirect" /\ r.status = "redirected"

\* C14: a create with a custom_code that a record already has fails with
\* Conflict: the step it takes while the record exists ends the request
\* with 409 and leaves the table (id, original_url and clicks of the
\* record) and the url:<code> cache entries as they were.
C14_TakenCustomCodeConflicts ==
    [][\A t \in Tasks :
          (/\ task[t].op = "create" /\ task[t].custom # NoCode
           /\ task[t].pc \in {"cr_exists", "cr_insert"}
           /\ ~NoRecord(task[t].custom)
           /\ task'[t] # task[t])
              => /\ task'[t].pc = "idle"
                 /\ \E r \in responses' \ responses :
                      /\ r.task = t /\ r.custom = task[t].custom
                      /\ r.status = "conflict"
                 /\ urls' = urls
                 /\ urls_next_id' = urls_next_id
                 /\ url_cache' = url_cache
                 /\ url_cache_replica' = url_cache_replica]_vars

\* A create asked for a custom code that a record with another
\* original_url had, and was refused at the SELECT; the record and its
\* cache entry are there.
C14_Witness ==
    \E r \in responses :
        /\ r.op = "create" /\ r.custom # NoCode
        /\ r.status = "conflict" /\ r.at = "cr_exists"
        /\ \E u \in urls :
             /\ u.short_code = r.custom /\ u.original_url # r.url
             /\ url_cache[r.custom] = CachedURLPayload(u)

\* C15: a create without a custom_code never ends with Conflict; when the
\* insert of its generated code meets the unique index, another ID is
\* drawn and the insert tried again until a record is inserted.
C15_GeneratedCodeNeverConflicts ==
    \A r \in responses :
        (r.op = "create" /\ r.custom = NoCode)
            => /\ r.status = "created"
               /\ \E u \in urls : u = r.obj /\ u.short_code = r.code

\* C16: an allocate request with size <= 0 or size > MAX_BLOCK is rejected:
\* no range is returned for it, and no step of the call changes
\* global_id_counter.
C16_InvalidSizeRejected ==
    /\ [](\A g \in granted : g.range_size \in 1..MAX_BLOCK)
    /\ [][\A i \in Allocators :
            (apc[i] \in {"acquire", "get", "seed", "set", "persist", "release"}
               /\ range_size[i] \notin 1..MAX_BLOCK)
                => global_id_counter' = global_id_counter]_vars

\* C17: the value of global_id_counter never decreases, whatever the
\* allocations and the startups of instances (with the restoration of the
\* counter they do) that take place.
C17_CounterNeverDecreases ==
    [][global_id_counter # None
          => /\ global_id_counter' # None
             /\ global_id_counter' >= global_id_counter]_vars

\* C18: on the cache path a call allocate(size) that read the counter
\* value c sets the counter to c + size and, when it succeeds, returns
\* exactly (c + 1, c + size), a range of size IDs; a call that reads the
\* counter as an earlier call's range left it returns the range that
\* starts right after that range.
C18_PrimaryRangeExact ==
    [][\A i \in Allocators :
          /\ (apc[i] = "set" /\ apc'[i] = "persist")
                => global_id_counter' = current_value[i] + range_size[i]
          /\ (apc[i] = "release" /\ source[i] = "redis_sentinel")
                => \A g \in {x \in granted' \ granted : x.inst = i} :
                      /\ g.start_id = current_value[i] + 1
                      /\ g.end_id = current_value[i] + range_size[i]
                      /\ g.end_id - g.start_id + 1 = range_size[i]
          /\ (apc[i] = "release" /\ source[i] = "redis_sentinel")
                => \A g \in {x \in granted' \ granted : x.inst = i} :
                   \A h \in granted :
                      (h.source = "redis_sentinel"
                         /\ h.end_id = current_value[i])
                          => g.start_id = h.end_id + 1]_vars

\* Two calls served from the cache one after the other returned ranges
\* of the sizes asked for, the second starting where the first ended.
C18_Witness ==
    \E g, h \in granted :
        /\ g.source = "redis_sentinel" /\ h.source = "redis_sentinel"
        /\ h.range_size = ID_BLOCK_SIZE
        /\ h.end_id - h.start_id + 1 = ID_BLOCK_SIZE
        /\ g.start_id = h.end_id + 1
        /\ global_id_counter = g.end_id

\* C19: a lookup never deletes a lock:url:<code> entry another task
\* acquired: when its own lock has run out and another lookup has set the
\* key since, its release leaves the key in place.
C19_ReleaseKeepsForeignLock ==
    [][\A t \in Tasks :
          (/\ task[t].pc = "lk_release"
           /\ task'[t] # task[t]
           /\ url_lock[task[t].code] \notin {Unlocked, t})
              => url_lock'[task[t].code] = url_lock[task[t].code]]_vars

\* The call of instance i is inside the try block of _allocate_from_redis.
InCriticalSection(i) ==
    /\ apc[i] \in {"get", "seed", "set", "persist"}
    /\ source[i] = "redis_sentinel"

ValidCustomCode(v) ==
    /\ Len(v) >= 3 /\ Len(v) <= 20
    /\ \A k \in 1..Len(v) : InCodeAlphabet(v[k])

\* C22: a create with a custom_code is rejected as invalid exactly when the
\* code is not 3 to 20 characters of the code alphabet, and a rejected
\* create has touched neither OLTP nor the cache (it ends where it began).
C22_CustomCodeValidated ==
    \A r \in responses, v \in CustomCodeInputs :
        (r.op = "create" /\ r.custom = JoinChars(v))
           => /\ (r.status = "invalid") <=> ~ValidCustomCode(v)
              /\ r.status = "invalid" => r.at = "idle"

\* The number of base-62 digits of n, and the base-62 numeral of n over
\* 0-9 a-z A-Z, most significant digit first, digit k being
\* (n div 62^(digits - k)) mod 62.
RECURSIVE Pow62(_)
Pow62(k) == IF k = 0 THEN 1 ELSE 62 * Pow62(k - 1)

NumDigits(n) == CHOOSE k \in 1..5 : n < Pow62(k) /\ (k = 1 \/ n >= Pow62(k - 1))

Numeral(n) ==
    [k \in 1..NumDigits(n) |->
        BASE62_ALPHABET[((n \div Pow62(NumDigits(n) - k)) % 62) + 1]]

\* C23: every call of encode with n >= 0 returns the base-62 numeral of n,
\* most significant digit first, over 0-9 a-z A-Z ("0" for 0, "Z" for 61,
\* "10" for 62), and every call with n < 0 fails with the invalid-argument
\* error.
C23_EncodeIsBase62Numeral ==
    \A r \in responses :
        r.op = "encode"
           => IF r.n >= 0
              THEN r.status = "ok" /\ r.code = JoinChars(Numeral(r.n))
              ELSE r.status = "ValueError"

\* The value of a digit in an alphabet, and the number a code spells in it,
\* most significant digit first (None when it is beyond MAX_INT).
DigitValue(alphabet, ch) ==
    (CHOOSE k \in 1..Len(alphabet) : alphabet[k] = ch) - 1

RECURSIVE Decode(_, _, _)
Decode(alphabet, code, acc) ==
    IF Len(code) = 0 THEN acc
    ELSE LET digit == DigitValue(alphabet, Head(code))
         IN  IF acc > (MAX_INT - digit) \div Len(alphabet) THEN None
             ELSE Decode(alphabet, Tail(code), acc * Len(alphabet) + digit)

AlphabetOf(via) == IF via = "service" THEN ALPHABET ELSE BASE62_ALPHABET

\* C24: the code generated for an allocated ID n has SHORT_CODE_LENGTH
\* characters and decodes to n in the alphabet that produced it, and two
\* different IDs never get the same code from the same generator.
C24_PaddedCodeDecodes ==
    \A r \in responses :
        r.op = "short_code"
           => /\ Len(r.code) = SHORT_CODE_LENGTH
              /\ Decode(AlphabetOf(r.via), r.code, 0) = r.n
              /\ \A q \in responses :
                    (q.op = "short_code" /\ q.via = r.via /\ q.n # r.n)
                       => q.code # r.code

\* Codes were generated for two different IDs by the same generator, one of
\* them shorter than SHORT_CODE_LENGTH digits before the padding.
C24_Witness ==
    \E r, q \in responses :
        /\ r.op = "short_code" /\ q.op = "short_code"
        /\ r.via = "url_service" /\ q.via = "url_service" /\ q.n # r.n
        /\ Len(base62_encode(r.n)) < SHORT_CODE_LENGTH

\* Instance i writes global_id_counter in this step: the SET of the startup
\* sync, or the seeding SET or the SET of end_id of an allocation, answered
\* by the cache.
WritesCounter(i) ==
    /\ apc[i] \in {"sync_set", "seed", "set"}
    /\ apc'[i] # apc[i]
    /\ redis_up

\* C25: whoever writes global_id_counter holds id_allocation_lock at that
\* moment: the lock key exists and holds the writer's token, also when the
\* writer was delayed and when the write is the startup seeding or
\* restoration.
C25_CounterWrittenUnderLock ==
    [][\A i \in Allocators :
         WritesCounter(i)
            => (id_allocation_lock # NoToken /\ id_allocation_lock = lock_value[i])]_vars

\* C26: once a startup sync has set the counter again after the cache lost
\* it, the range of every call started from then on is disjoint from every
\* range returned before the loss, synced to the audit table or not.
C26_RestoredCounterKeepsRangesDisjoint ==
    counter_loss.restored
       => \A g1 \in counter_loss.before, g2 \in granted \ counter_loss.before :
             g2.call > counter_loss.calls[g2.inst] => ~Overlap(g1, g2)

\* The last attempt of instance i's call to set the lock key is refused or
\* unanswered in this step, and: the call of instance i starts in this step
\* with neither backend believed healthy.
LockBudgetExhausted(i) ==
    /\ apc[i] = "acquire" /\ apc'[i] # "acquire"
    /\ attempt[i] = LOCK_MAX_RETRIES
    /\ ~(redis_up /\ id_allocation_lock = NoToken)

NoBackendServes(i) ==
    /\ apc[i] = "idle" /\ calls'[i] = calls[i] + 1
    /\ redis_health[i] # "healthy" /\ postgresql_health[i] # "healthy"

\* C27: a call that cannot take id_allocation_lock within its retries, and
\* a call that no backend can serve, end there with the error: the call is
\* over, no range is returned and global_id_counter is as it was.
C27_FailedCallReturnsNothing ==
    [][\A i \in Allocators :
         (LockBudgetExhausted(i) \/ NoBackendServes(i))
            => /\ apc'[i] = "idle"
               /\ granted' = granted
               /\ global_id_counter' = global_id_counter]_vars

\* The consumer stands between the start of _flush_aggregates and its end.
FlushInProgress == ipc \in {"flush", "commit", "decr", "clickhouse", "delete"}

\* C28: while no flush is in progress the key click_buffer:<c> of every code
\* is absent or holds a value of at least 0, also when the key ran out
\* between the clicks and the flush that decrements it.
C28_BufferNonNegativeAtRest ==
    ~FlushInProgress
       => \A c \in Codes : click_buffer_ttl[c] = "absent" \/ click_buffer[c] >= 0

\* The click events produced for a code: those on the queue and those on
\* the fallback stream.
EventsProduced(c) == SumDeltas(click_queue, c) + SumDeltas(click_stream, c)

\* C29: while the consumer process runs without ending, the OLTP clicks of
\* a code never exceed the click events produced for it, also when a step
\* of a flush after the OLTP commit failed and the flush was made again.
C29_DeltaAppliedAtMostOnce ==
    \A c \in ClickCodes : OltpClicks(c) <= EventsProduced(c)

\* C30: once a lookup has returned the url:<code> entry it read and that
\* entry was written after a flush (it carries clicks the first flush added),
\* what a later read of the key finds is no entry or an entry with at least
\* those clicks.
C30_CachedClicksNeverGoBack ==
    \A r \in responses :
        (r.op = "lookup" /\ r.status = "ok" /\ r.via = "cache" /\ r.obj.clicks > 0)
           => \/ url_cache_replica[r.code] = NoEntry
              \/ url_cache_replica[r.code].clicks >= r.obj.clicks

ReachableHealth ==
    IF redis_up THEN "healthy" ELSE IF pg_up THEN "degraded" ELSE "failed"

\* The call of instance i to allocate_unique_id_range returns or raises in
\* this step.
AttemptEnds(i) ==
    /\ apc'[i] = "idle"
    /\ \/ apc[i] = "idle" /\ calls'[i] = calls[i] + 1
       \/ apc[i] \in {"acquire", "get", "seed", "set", "persist", "release",
                      "pg", "pg_commit"}

\* C32: when a call of allocate_unique_id_range is over, the health of the
\* instance is healthy iff the primary cache is reachable, degraded iff only
\* the OLTP store is, failed otherwise: the attempt has evaluated the health
\* again.
C32_HealthFollowsReachability ==
    [][\A i \in Allocators :
         AttemptEnds(i) => current_health(i)' = ReachableHealth']_vars

\* The breaker refuses calls: the flag is set and its period has not run out.
BreakerOpen == CircuitBreakerIsOpen(Breaker)

\* C33: the breaker is open exactly from the 5th failed call in a row until
\* OPEN_SECONDS later or the first successful call: not after fewer than 5
\* failed calls, and again each time 5 calls in a row have failed after an
\* earlier period ended.
C33_OpenFromFifthFailure ==
    BreakerOpen <=> /\ failed_operations.n >= max_failures
                    /\ clock < failed_operations.fifth_at + OPEN_SECONDS

\* The record of the k-th block the cache path hands out.
BlockRecord(k) ==
    [start_id |-> INITIAL_COUNTER + (k - 1) * ID_BLOCK_SIZE + 1,
     end_id |-> INITIAL_COUNTER + k * ID_BLOCK_SIZE]

Queued(k) ==
    \E i \in Allocators : \E r \in SeqRange(pending_allocations[i]) :
        r.start_id = BlockRecord(k).start_id /\ r.end_id = BlockRecord(k).end_id

Inserted(k) ==
    \E a \in audit_table :
        a.start_id = BlockRecord(k).start_id /\ a.end_id = BlockRecord(k).end_id

\* C34: with an OLTP store whose outages end, every allocation record that
\* was placed in the pending deque is eventually a row of
\* id_allocation_records, and the table never holds two rows with the same
\* (start_id, end_id).
C34_PendingRecordsReachAudit ==
    /\ [](\A a, b \in audit_table :
            (a.start_id = b.start_id /\ a.end_id = b.end_id) => a = b)
    /\ \A k \in 1..MaxCalls : Queued(k) ~> Inserted(k)

\* An outage of the OLTP store has ended, the deques are empty and the
\* records of two blocks are rows of the table.
C34_Witness ==
    /\ pg_up
    /\ outages > 0
    /\ \A i \in Allocators : pending_allocations[i] = <<>>
    /\ Cardinality(audit_table) >= 2

\* The number of pending records at which the load tier flushes.
FlushThreshold(rps) ==
    IF rps < 1000 THEN 1000 ELSE IF rps <= 5000 THEN 500 ELSE 100

\* C35: a tick of the sync worker that finds at least as many pending
\* records as the threshold of the current load tier (1,000 below 1,000
\* req/s, 500 from 1,000 to 5,000 req/s, 100 above) flushes: when the call
\* has returned, records have gone to the OLTP batch.
C35_FlushAtTierThreshold ==
    (sync_tick.pc = "returned"
       /\ sync_tick.snapshot >= FlushThreshold(sync_tick.current_rps))
        => sync_tick.to_sync > 0

\* shutdown of instance i completes in this step.
ShutdownCompletes(i) == apc[i] # "shutdown" /\ apc'[i] = "shutdown"

\* C36: when shutdown completes with the OLTP store reachable, the pending
\* deque of the instance is empty and every record it held is a row of the
\* audit table.
C36_ShutdownDrainsDeque ==
    [][\A i \in Allocators :
         (ShutdownCompletes(i) /\ pg_up)
            => /\ pending_allocations'[i] = <<>>
               /\ \A r \in SeqRange(pending_allocations[i]) :
                     \E a \in audit_table' :
                        a.start_id = r.start_id /\ a.end_id = r.end_id]_vars

\* C37: the hash ingestion_agg:<consumer> never holds more than
\* INGESTION_BATCH_SIZE distinct codes.
C37_AggregationBounded == agg_loop.hlen <= INGESTION_BATCH_SIZE

\* A call of _flush_click_buffer that found nothing to apply: the lock was
\* not acquired, or the buffer key was absent or held 0 or less.
FoundNothing(call) ==
    /\ call.short_code # ""
    /\ \/ ~call.acquired
       \/ call.read /\ (~call.found \/ call.buffered_count <= 0)

\* A scheduled flush whose hash holds no positive delta returns in this step.
ScheduledFlushFindsNothing ==
    /\ ipc = "flush"
    /\ ipc' # "flush"
    /\ \A c \in Codes : ingestion_agg[c] <= 0

\* C38: a call of _flush_click_buffer that found nothing to apply has
\* written no row and deleted no url:<code> entry, and a scheduled flush that
\* finds no positive delta changes neither the rows nor the url:<code>
\* entries.
C38_EmptyFlushWritesNothing ==
    /\ [](\A t \in FlushTasks :
            FoundNothing(flush_call[t])
               => ~flush_call[t].wrote /\ ~flush_call[t].deleted)
    /\ [][ScheduledFlushFindsNothing
            => ipc' = "getmany" /\ urls' = urls /\ url_cache' = url_cache]_vars

\* Two calls have returned, one that did not acquire the lock and one that
\* read a buffer key holding 0, the consumer having flushed a click before.
C38_Witness ==
    /\ \E t, u \in FlushTasks :
         /\ flush_call[t].pc = "idle" /\ flush_call[t].short_code # ""
         /\ ~flush_call[t].acquired
         /\ flush_call[u].pc = "idle" /\ flush_call[u].read
         /\ flush_call[u].found /\ flush_call[u].buffered_count = 0
    /\ flush_log.state = "returned"
    /\ OltpClicks("abc") > 0

\* Two ranges of IDs share no ID.
DisjointIds(a_first, a_last, b_first, b_last) ==
    a_last < b_first \/ b_last < a_first

\* The draws logged so far, and the block each was drawn from.
Draws == block_log.draws
BlockOf(d) == block_log.grants[d.grant]

\* A drawn ID lies inside the block it was drawn from, which was granted to
\* this process.
DrawnInsideGrant(d) ==
    /\ d.grant \in 1..Len(block_log.grants)
    /\ BlockOf(d).owner = "self"
    /\ BlockOf(d).start <= d.first /\ d.first <= d.last
    /\ d.last <= BlockOf(d).end

C40_FallbackBlockDisjoint ==
    \A i, j \in 1..Len(block_log.grants) :
       (/\ i # j
        /\ block_log.grants[i].source = "cache"
        /\ block_log.grants[i].owner = "self")
          => DisjointIds(block_log.grants[i].start, block_log.grants[i].end,
                         block_log.grants[j].start, block_log.grants[j].end)


====
